---- MODULE Spec2Model ----
(***************************************************************************)
(* Model of the conversation orchestration engine of ai_router.            *)
(*                                                                         *)
(* Part I  - transport lifecycle (app/bot/bot_service.py):                 *)
(*           BotLifecycleMixin.start_polling / stop / start_webhook and    *)
(*           the polling worker thread (_polling_loop).                    *)
(* Part II - session handling (app/bot/message_handlers/*.py and           *)
(*           app/bot/dialog_management.py): text messages, new-dialog and  *)
(*           switch-dialog callbacks working on the Dialog / MessageLog    *)
(*           tables.                                                       *)
(*                                                                         *)
(* Durations are whole multiples of 0.1 s; a timeout below 0.1 s is 0.     *)
(***************************************************************************)
EXTENDS Integers, Sequences, FiniteSets, TLC

\* ------------------------------------------------------------------------
\* Bounds
\* ------------------------------------------------------------------------
\* calls a single caller may issue in a run
MaxCalls == 4
\* calls two concurrent callers may issue in a run, in total
MaxConcCalls == 3
\* calls of the lifecycle API next to a fairly scheduled worker
MaxWorkerCalls == 3
\* largest stop(timeout=...) and stop(max_wait=...) argument, in 0.1 s
MaxTimeout == 2
MaxWait == 2
\* the join attempt counter of stop() (used in its log lines only) saturates
AttemptCap == 2
\* inbound updates and pause toggles handled in a run
MaxEvents == 2
\* answered turns the store holds at start, and the tokens of each
MaxStoredTurns == 2
TurnTokens == 2
\* largest value of the dialog_token_limit setting, and the
\* dialog_token_limit of the second stored model configuration
MaxLimit == 4
ModelTwoLimit == 3
\* push requests taken in a run
MaxRequests == 2
\* runs of equal characters a reply text is made of
MaxRuns == 3
\* model configurations that can be stored
MaxConfigs == 3
\* send_chat_request calls in a behaviour
MaxClientCalls == 2
\* content blocks in the output list of a response
MaxBlocks == 2
\* the latest value of the clock
MaxClock == 2
\* provider updates in a behaviour
MaxEdits == 2
\* inbound events of the sender in a behaviour
MaxContacts == 3
MaxTitleRuns == 3
MaxTitleTurns == 2
MaxParams == 3
MaxOutputs == 4

\* ------------------------------------------------------------------------
\* Program constants
\* ------------------------------------------------------------------------
\* interval = max(timeout, 0.1): 0.1 s is one unit
MinInterval == 1
\* Python None for object references (thread handle, bot client)
None == 0
\* "max_wait is None"
NoWait == -1
\* stop(timeout=5.0)
DefaultTimeout == 50

CallerIds == {1, 2}
\* senders of updates, and the handler threads of the bot client
Users == {1, 2}
Handlers == {1, 2}
\* stored model configurations: id -> dialog_token_limit (0: none)
ModelIds == {1, 2}
ModelLimit == [m \in ModelIds |-> IF m = 1 THEN 0 ELSE ModelTwoLimit]
\* "no limit" (Python None) of _determine_effective_dialog_limit
NoLimit == 0
\* webhook_secret not set, header X-Telegram-Bot-Api-Secret-Token absent
NoSecret == 0
\* setting active_model_id: not set, or not an integer
Unset == 0
Unparsable == -1
\* outcome of _get_model_config: not called yet, RuntimeError raised
NotCalled == 0
Raised == -1
\* secret values that occur in settings and headers
Secrets == {1, 2}
\* the message length limit of the transport, and len(continuation)
TransportLimit == 4096
MarkerLen == 3
\* the length of Dialog.title as stored, and as shown in the history
TitleCap == 255
ShownCap == 40
Threads == 1..(2 * MaxCalls)
Bots == 1..(2 * MaxCalls)

VARIABLES
    \* ---- BotLifecycleMixin fields
    polling_thread,    \* self._polling_thread: None or a thread
    stop_event,        \* self._stop_event.is_set()
    bot,               \* self._bot: None or a TeleBot instance
    \* ---- objects the manager refers to
    tstate,            \* thread -> position of the worker thread
    tbot,              \* thread -> bot whose infinity_polling() it is inside
    stop_requested,    \* bots on which stop_polling() has been called
    nbots,             \* TeleBot instances created so far
    webhook,           \* a push endpoint is registered at the transport
    \* ---- settings
    token_set,         \* telegram_bot_token is configured
    url_set,           \* webhook_url is configured
    \* ---- failure callback (_notify_error_subscribers) invocations
    notified_stop,     \* <<caller, call number>> of PollingStopTimeoutError
    notified_poll,     \* worker threads that reported a receive exception
    \* ---- callers of the lifecycle API (admin requests)
    caller,
    \* ---- the store: Dialog and MessageLog tables, settings, model configs
    dialogs,           \* Dialog rows in creation order; the id is the position
    logs,              \* MessageLog rows in creation order
    dialog_token_limit,\* setting dialog_token_limit (0: not set)
    models,            \* ids of the stored ModelConfig rows
    bot_paused,        \* setting bot_paused is truthy
    user_active,       \* user -> User.is_active
    \* ---- the transport and the backend, as seen from outside
    sent,              \* messages the bot has sent
    backend_calls,     \* MessageLog rows for which a backend request was issued
    \* ---- update handlers (the worker pool of the bot client)
    handler,
    events,            \* inbound updates taken so far
    \* ---- push (webhook) entry points
    webhook_secret,    \* setting webhook_secret (NoSecret: not set)
    ensured,           \* app.bot.TelegramBotManager._bot is set
    delivered,         \* updates passed to bot.process_new_updates
    answered,          \* HTTP responses given to push requests
    requests,          \* push requests taken so far
    \* ---- the output segmenter (_prepare_response_chunks)
    text,              \* the reply text given to the segmenter
    chunks,            \* the segments it returned
    chunked,           \* the segmenter has run
    \* ---- a turn, as seen by the backend and by the operators
    error_recipients,  \* chats named by setting error_notification_user_ids
    provider_messages, \* the message lists of the backend requests issued
    replied,           \* MessageLog rows whose backend request returned a reply
    backend_requests,  \* the MessageLog row of every backend request, in order
    \* ---- model selection (_get_model_config)
    active_model_id,   \* setting active_model_id
    default_models,    \* ids of the ModelConfig rows with is_default = true
    selected,          \* what the last _get_model_config call gave
    \* ---- sending the reply of an answered turn
    limit_exceeded,    \* limit_value is not None and total_tokens >= limit_value
    outbox,            \* the messages sent for the reply, in order
    reply_sent,        \* the reply has been sent
    \* ---- the HTTP client of the backend (OpenAIService)
    openai_api_key,    \* setting openai_api_key is set
    client_calls,      \* send_chat_request calls: configuration, endpoint, result
    http_posts,        \* POST requests issued, with the status answered
    \* ---- extract_message
    response_data,     \* the decoded JSON body given to extract_message
    extraction,        \* what the extract_message call computed and how it ended
    \* ---- the client registry (LLMService._clients)
    providers,         \* LLMProvider rows: vendor, api_key, updated_at
    clients,           \* self._clients: provider id -> (signature, client)
    got,               \* the last _get_client call: what it saw and what it gave
    now,               \* datetime.utcnow()
    edits,             \* provider updates so far
    \* ---- the User table and its upsert (_get_or_create_user)
    users,             \* User rows in creation order
    uhandler,          \* handler -> position inside _get_or_create_user
    received,          \* inbound events taken so far
    last_username,     \* the latest non-empty username received
    last_full_name,    \* the latest non-empty full name received
    \* ---- the effective limit (_determine_effective_dialog_limit)
    effective,         \* the last _determine_effective_dialog_limit call and its result
    \* ---- the title of a dialog (_handle_message, _format_dialog_title)
    title,             \* Dialog.title
    first_message,     \* user_message of the row with message_index 1
    turns,             \* MessageLog rows of the dialog
    shown,             \* what _format_dialog_title returned last
    \* ---- the parameters of a backend request (_sanitize_model_config, _build_chat_payload)
    model_config,      \* the keys of the model_config given, in order
    model_name,        \* model_config["model"]
    rules_map,         \* openai_model_params.json: rule key -> allowed_params, aliases
    request,           \* the request built last: who built it and its parameters
    \* ---- the controls of the messages sent in a dialog (_clear_previous_reply_markup)
    bot_messages,      \* the messages the bot sent in the chat of a dialog: turn, kind, reply markup
    assistant_ids,     \* MessageLog.assistant_message_id of the rows of the dialog (0: None)
    \* ---- the loop of _prepare_response_chunks, one iteration at a time
    loop_text,         \* processed_text
    loop_remaining,    \* remaining
    loop_first,        \* first_chunk
    loop_chunks,       \* chunks, the list being built
    loop_pc            \* "idle", "entry", "loop" or "returned"

lifecycleVars == <<polling_thread, stop_event, bot, tstate, tbot,
                   stop_requested, nbots, webhook, token_set, url_set,
                   notified_stop, notified_poll, caller>>

dialogVars == <<dialogs, logs, dialog_token_limit, models, bot_paused,
                user_active, sent, backend_calls, handler, events>>

webhookVars == <<webhook_secret, ensured, delivered, answered, requests>>

\* the variables outside Part I and Part II
chunkVars == <<text, chunks, chunked>>

turnVars == <<error_recipients, provider_messages, replied, backend_requests>>

modelVars == <<active_model_id, default_models, selected>>

replyVars == <<limit_exceeded, outbox, reply_sent>>

clientVars == <<openai_api_key, client_calls, http_posts>>

extractVars == <<response_data, extraction>>

cacheVars == <<providers, clients, got, now, edits>>

userVars == <<users, uhandler, received, last_username, last_full_name>>

limitVars == <<effective>>

titleVars == <<title, first_message, turns, shown>>

paramVars == <<model_config, model_name, rules_map, request>>

markupVars == <<bot_messages, assistant_ids>>

loopVars == <<loop_text, loop_remaining, loop_first, loop_chunks, loop_pc>>

auxVars == <<webhookVars, chunkVars, turnVars, modelVars,
            replyVars, clientVars, extractVars, cacheVars,
            userVars, limitVars, titleVars, paramVars,
            markupVars, loopVars>>

\* auxVars without one of its groups
notWebhookVars ==
    <<chunkVars, turnVars, modelVars, replyVars,
      clientVars, extractVars, cacheVars, userVars,
      limitVars, titleVars, paramVars, markupVars,
      loopVars>>
notChunkVars ==
    <<webhookVars, turnVars, modelVars, replyVars,
      clientVars, extractVars, cacheVars, userVars,
      limitVars, titleVars, paramVars, markupVars,
      loopVars>>
notTurnVars ==
    <<webhookVars, chunkVars, modelVars, replyVars,
      clientVars, extractVars, cacheVars, userVars,
      limitVars, titleVars, paramVars, markupVars,
      loopVars>>
notModelVars ==
    <<webhookVars, chunkVars, turnVars, replyVars,
      clientVars, extractVars, cacheVars, userVars,
      limitVars, titleVars, paramVars, markupVars,
      loopVars>>
notReplyVars ==
    <<webhookVars, chunkVars, turnVars, modelVars,
      clientVars, extractVars, cacheVars, userVars,
      limitVars, titleVars, paramVars, markupVars,
      loopVars>>

notClientVars ==
    <<webhookVars, chunkVars, turnVars, modelVars,
      replyVars, extractVars, cacheVars, userVars,
      limitVars, titleVars, paramVars, markupVars,
      loopVars>>

notExtractVars ==
    <<webhookVars, chunkVars, turnVars, modelVars,
      replyVars, clientVars, cacheVars, userVars,
      limitVars, titleVars, paramVars, markupVars,
      loopVars>>

notCacheVars ==
    <<webhookVars, chunkVars, turnVars, modelVars,
      replyVars, clientVars, extractVars, userVars,
      limitVars, titleVars, paramVars, markupVars,
      loopVars>>

notUserVars ==
    <<webhookVars, chunkVars, turnVars, modelVars,
      replyVars, clientVars, extractVars, cacheVars,
      limitVars, titleVars, paramVars, markupVars,
      loopVars>>

notLimitVars ==
    <<webhookVars, chunkVars, turnVars, modelVars,
      replyVars, clientVars, extractVars, cacheVars,
      userVars, titleVars, paramVars, markupVars,
      loopVars>>

notTitleVars ==
    <<webhookVars, chunkVars, turnVars, modelVars,
      replyVars, clientVars, extractVars, cacheVars,
      userVars, limitVars, paramVars, markupVars,
      loopVars>>

notParamVars ==
    <<webhookVars, chunkVars, turnVars, modelVars,
      replyVars, clientVars, extractVars, cacheVars,
      userVars, limitVars, titleVars, markupVars,
      loopVars>>

notMarkupVars ==
    <<webhookVars, chunkVars, turnVars, modelVars,
      replyVars, clientVars, extractVars, cacheVars,
      userVars, limitVars, titleVars, paramVars,
      loopVars>>

notLoopVars ==
    <<webhookVars, chunkVars, turnVars, modelVars,
      replyVars, clientVars, extractVars, cacheVars,
      userVars, limitVars, titleVars, paramVars,
      markupVars>>

vars == <<polling_thread, stop_event, bot, tstate, tbot,
          stop_requested, nbots, webhook, token_set, url_set,
          notified_stop, notified_poll, caller,
          dialogs, logs, dialog_token_limit, models, bot_paused,
          user_active, sent, backend_calls, handler, events, auxVars>>

\* ------------------------------------------------------------------------
\* Helpers
\* ------------------------------------------------------------------------
Max(a, b) == IF a >= b THEN a ELSE b
Min(a, b) == IF a <= b THEN a ELSE b

\* threading.Thread.is_alive(): started and not yet finished
IsAlive(t) == t # None /\ tstate[t] \in {"started", "loop", "enter", "recv", "except", "backoff"}

\* BotLifecycleMixin.is_running
is_running == polling_thread # None /\ IsAlive(polling_thread)

\* next unused thread object
NewThread == CHOOSE t \in Threads : tstate[t] = "unborn" /\ \A u \in Threads : tstate[u] = "unborn" => t <= u

CanSpawn == \E t \in Threads : tstate[t] = "unborn"
CanCreateBot == nbots < 2 * MaxCalls

\* a caller: pc and op are its position, ret the statement stop() returns to,
\* thread .. token the locals of the running call, res the outcome of the
\* running call, prev the outcome of the call before it, and old_thread /
\* old_alive the value of self._polling_thread when the running call was
\* made and whether that thread was alive then
IdleCaller == [pc |-> "idle", op |-> "none", ret |-> "idle", thread |-> None,
               bot |-> None, timeout |-> 0, max_wait |-> NoWait, elapsed |-> 0,
               attempt |-> 0, token |-> FALSE, res |-> "none", prev |-> "none",
               old_thread |-> None, old_alive |-> FALSE, calls |-> 0]

\* the record of caller c as it enters a new call
Enter(c, op, pc) == [IdleCaller EXCEPT !.pc = pc, !.op = op, !.prev = caller[c].res,
                        !.old_thread = polling_thread,
                        !.old_alive = IsAlive(polling_thread),
                        !.calls = caller[c].calls + 1]

\* calls issued so far by all callers
TotalCalls == caller[1].calls + caller[2].calls

\* caller c moves on to pc p
Goto(c, p) == caller' = [caller EXCEPT ![c].pc = p]

\* caller c finishes its call with outcome r
Finish(c, r) == caller' = [caller EXCEPT ![c].pc = "idle", ![c].res = r]

\* ------------------------------------------------------------------------
\* _cleanup_completed_polling_thread
\* ------------------------------------------------------------------------
CleanupApplies == polling_thread # None /\ ~IsAlive(polling_thread)

\* variant: the stop signal object is not replaced
cleanup_keeps_stop_event ==
    IF CleanupApplies
    THEN /\ polling_thread' = None
         /\ bot' = None
         /\ UNCHANGED stop_event
    ELSE UNCHANGED <<polling_thread, stop_event, bot>>

cleanup_completed_polling_thread ==
    IF CleanupApplies
    THEN /\ polling_thread' = None
         /\ stop_event' = FALSE
         /\ bot' = None
    ELSE UNCHANGED <<polling_thread, stop_event, bot>>

\* ------------------------------------------------------------------------
\* start_polling
\* ------------------------------------------------------------------------
\* variant: a finished worker is not cleaned up first
StartPollingCall_no_cleanup(c, maxCalls) ==
    /\ caller[c].pc = "idle"
    /\ TotalCalls < maxCalls
    /\ caller' = [caller EXCEPT ![c] = Enter(c, "start_polling", "sp_conflict")]
    /\ UNCHANGED <<polling_thread, stop_event, bot, tstate, tbot, stop_requested,
                   nbots, webhook, token_set, url_set, notified_stop, notified_poll>>
    /\ UNCHANGED <<dialogVars, auxVars>>

\* the call, with its first statement: the cleanup of a finished worker
StartPollingCall(c, maxCalls) ==
    /\ caller[c].pc = "idle"
    /\ TotalCalls < maxCalls
    /\ cleanup_completed_polling_thread
    /\ caller' = [caller EXCEPT ![c] = Enter(c, "start_polling", "sp_conflict")]
    /\ UNCHANGED <<tstate, tbot, stop_requested, nbots, webhook, token_set,
                   url_set, notified_stop, notified_poll>>
    /\ UNCHANGED <<dialogVars, auxVars>>

\* variant: no refusal while a stop is in flight
StartPollingConflict_not_refused(c) ==
    /\ caller[c].pc = "sp_conflict"
    /\ Goto(c, "sp_running")
    /\ UNCHANGED <<polling_thread, stop_event, bot, tstate, tbot,
                   stop_requested, nbots, webhook, token_set, url_set,
                   notified_stop, notified_poll>>
    /\ UNCHANGED <<dialogVars, auxVars>>

\* a previous stop is still in flight: refuse
StartPollingConflict(c) ==
    /\ caller[c].pc = "sp_conflict"
    /\ IF polling_thread # None /\ stop_event
       THEN Finish(c, "RuntimeError")
       ELSE Goto(c, "sp_running")
    /\ UNCHANGED <<polling_thread, stop_event, bot, tstate, tbot,
                   stop_requested, nbots, webhook, token_set, url_set,
                   notified_stop, notified_poll>>
    /\ UNCHANGED <<dialogVars, auxVars>>

\* already running: nothing to do; a stale handle: stop() first
StartPollingRunning(c) ==
    /\ caller[c].pc = "sp_running"
    /\ IF is_running
       THEN Finish(c, "ok")
       ELSE IF polling_thread # None
            THEN caller' = [caller EXCEPT ![c].pc = "st_set", ![c].ret = "sp_token",
                               ![c].timeout = DefaultTimeout, ![c].max_wait = NoWait]
            ELSE Goto(c, "sp_token")
    /\ UNCHANGED <<polling_thread, stop_event, bot, tstate, tbot,
                   stop_requested, nbots, webhook, token_set, url_set,
                   notified_stop, notified_poll>>
    /\ UNCHANGED <<dialogVars, auxVars>>

\* variant: the start goes on without a token
StartPollingToken_unchecked(c) ==
    /\ caller[c].pc = "sp_token"
    /\ caller' = [caller EXCEPT ![c].token = token_set, ![c].pc = "sp_create"]
    /\ UNCHANGED <<polling_thread, stop_event, bot, tstate, tbot,
                   stop_requested, nbots, webhook, token_set, url_set,
                   notified_stop, notified_poll>>
    /\ UNCHANGED <<dialogVars, auxVars>>

\* the bot token must be configured
StartPollingToken(c) ==
    /\ caller[c].pc = "sp_token"
    /\ caller' = [caller EXCEPT ![c].token = token_set,
                     ![c].pc = IF token_set THEN "sp_create" ELSE "idle",
                     ![c].res = IF token_set THEN "none" ELSE "RuntimeError"]
    /\ UNCHANGED <<polling_thread, stop_event, bot, tstate, tbot,
                   stop_requested, nbots, webhook, token_set, url_set,
                   notified_stop, notified_poll>>
    /\ UNCHANGED <<dialogVars, auxVars>>

\* self._bot = self._create_bot(token)
StartPollingCreateBot(c) ==
    /\ caller[c].pc = "sp_create"
    /\ CanCreateBot
    /\ nbots' = nbots + 1
    /\ bot' = nbots + 1
    /\ Goto(c, "sp_clear")
    /\ UNCHANGED <<polling_thread, stop_event, tstate, tbot, stop_requested,
                   webhook, token_set, url_set, notified_stop, notified_poll>>
    /\ UNCHANGED <<dialogVars, auxVars>>

\* self._stop_event.clear()
StartPollingClear(c) ==
    /\ caller[c].pc = "sp_clear"
    /\ stop_event' = FALSE
    /\ Goto(c, "sp_thread")
    /\ UNCHANGED <<polling_thread, bot, tstate, tbot, stop_requested, nbots,
                   webhook, token_set, url_set, notified_stop, notified_poll>>
    /\ UNCHANGED <<dialogVars, auxVars>>

\* self._polling_thread = threading.Thread(target=self._polling_loop)
StartPollingThread(c) ==
    /\ caller[c].pc = "sp_thread"
    /\ CanSpawn
    /\ polling_thread' = NewThread
    /\ tstate' = [tstate EXCEPT ![NewThread] = "new"]
    /\ Goto(c, "sp_start")
    /\ UNCHANGED <<stop_event, bot, tbot, stop_requested, nbots, webhook,
                   token_set, url_set, notified_stop, notified_poll>>
    /\ UNCHANGED <<dialogVars, auxVars>>

\* self._polling_thread.start()
StartPollingStart(c) ==
    /\ caller[c].pc = "sp_start"
    /\ IF polling_thread = None
       THEN Finish(c, "AttributeError") /\ UNCHANGED tstate
       ELSE IF tstate[polling_thread] # "new"
            THEN Finish(c, "RuntimeError") /\ UNCHANGED tstate
            ELSE /\ tstate' = [tstate EXCEPT ![polling_thread] = "started"]
                 /\ Finish(c, "ok")
    /\ UNCHANGED <<polling_thread, stop_event, bot, tbot, stop_requested, nbots,
                   webhook, token_set, url_set, notified_stop, notified_poll>>
    /\ UNCHANGED <<dialogVars, auxVars>>

\* ------------------------------------------------------------------------
\* stop(timeout, max_wait)
\* ------------------------------------------------------------------------
\* the call, with its first statement: self._stop_event.set()
StopCall(c, maxCalls, timeout, max_wait) ==
    /\ caller[c].pc = "idle"
    /\ TotalCalls < maxCalls
    /\ stop_event' = TRUE
    /\ caller' = [caller EXCEPT ![c] = [Enter(c, "stop", "st_bot") EXCEPT
                     !.timeout = timeout, !.max_wait = max_wait]]
    /\ UNCHANGED <<polling_thread, bot, tstate, tbot, stop_requested, nbots,
                   webhook, token_set, url_set, notified_stop, notified_poll>>
    /\ UNCHANGED <<dialogVars, auxVars>>

\* stop() entered from start_polling or start_webhook: self._stop_event.set()
StopSet(c) ==
    /\ caller[c].pc = "st_set"
    /\ stop_event' = TRUE
    /\ caller' = [caller EXCEPT ![c].pc = "st_bot", ![c].thread = None,
                     ![c].bot = None, ![c].elapsed = 0, ![c].attempt = 0]
    /\ UNCHANGED <<polling_thread, bot, tstate, tbot, stop_requested, nbots,
                   webhook, token_set, url_set, notified_stop, notified_poll>>
    /\ UNCHANGED <<dialogVars, auxVars>>

\* bot = self._bot; if bot: bot.stop_polling()
StopBot(c) ==
    /\ caller[c].pc = "st_bot"
    /\ stop_requested' = IF bot # None THEN stop_requested \cup {bot} ELSE stop_requested
    /\ caller' = [caller EXCEPT ![c].pc = "st_thread", ![c].bot = bot]
    /\ UNCHANGED <<polling_thread, stop_event, bot, tstate, tbot, nbots,
                   webhook, token_set, url_set, notified_stop, notified_poll>>
    /\ UNCHANGED <<dialogVars, auxVars>>

\* thread = self._polling_thread; if thread and thread.is_alive(): wait
StopThread(c) ==
    /\ caller[c].pc = "st_thread"
    /\ caller' = [caller EXCEPT ![c].thread = polling_thread,
                     ![c].pc = IF IsAlive(polling_thread) THEN "st_wait" ELSE "st_cleanup"]
    /\ UNCHANGED <<polling_thread, stop_event, bot, tstate, tbot, stop_requested,
                   nbots, webhook, token_set, url_set, notified_stop, notified_poll>>
    /\ UNCHANGED <<dialogVars, auxVars>>

\* deadline - time.monotonic(), when max_wait is given
Remaining(c) == Max(caller[c].max_wait, 0) - caller[c].elapsed

\* interval = max(timeout, 0.1)
Interval(c) == Max(caller[c].timeout, MinInterval)

\* head of "while thread.is_alive()", with the deadline test
StopWait(c) ==
    /\ caller[c].pc = "st_wait"
    /\ IF ~IsAlive(caller[c].thread)
       THEN Goto(c, "st_check")
       ELSE IF caller[c].max_wait # NoWait /\ Remaining(c) <= 0
            THEN Goto(c, "st_check")
            ELSE Goto(c, "st_join")
    /\ UNCHANGED <<polling_thread, stop_event, bot, tstate, tbot, stop_requested,
                   nbots, webhook, token_set, url_set, notified_stop, notified_poll>>
    /\ UNCHANGED <<dialogVars, auxVars>>

\* thread.join(timeout=join_timeout): returns when the thread has finished
\* or when join_timeout has elapsed with the thread still alive
StopJoin(c) ==
    /\ caller[c].pc = "st_join"
    /\ LET jt == IF caller[c].max_wait = NoWait THEN Interval(c)
                 ELSE Min(Interval(c), Remaining(c))
       IN caller' = [caller EXCEPT ![c].pc = "st_wait",
                        ![c].attempt = Min(caller[c].attempt + 1, AttemptCap),
                        ![c].elapsed = IF IsAlive(caller[c].thread) /\ caller[c].max_wait # NoWait
                                       THEN caller[c].elapsed + jt
                                       ELSE caller[c].elapsed]
    /\ UNCHANGED <<polling_thread, stop_event, bot, tstate, tbot, stop_requested,
                   nbots, webhook, token_set, url_set, notified_stop, notified_poll>>
    /\ UNCHANGED <<dialogVars, auxVars>>

\* variant: a timed-out stop tears the manager down before raising
StopCheck_teardown(c) ==
    /\ caller[c].pc = "st_check"
    /\ IF IsAlive(caller[c].thread)
       THEN /\ notified_stop' = notified_stop \cup {<<c, caller[c].calls>>}
            /\ polling_thread' = None
            /\ bot' = None
            /\ IF caller[c].ret = "sp_token"
               THEN Finish(c, "RuntimeError")
               ELSE Finish(c, "PollingStopTimeoutError")
       ELSE /\ Goto(c, "st_cleanup")
            /\ UNCHANGED <<notified_stop, polling_thread, bot>>
    /\ UNCHANGED <<stop_event, tstate, tbot, stop_requested,
                   nbots, webhook, token_set, url_set, notified_poll>>
    /\ UNCHANGED <<dialogVars, auxVars>>

\* after the loop: still alive -> notify the failure callback and raise
StopCheck(c) ==
    /\ caller[c].pc = "st_check"
    /\ IF IsAlive(caller[c].thread)
       THEN /\ notified_stop' = notified_stop \cup {<<c, caller[c].calls>>}
            /\ IF caller[c].ret = "sp_token"
               THEN Finish(c, "RuntimeError")
               ELSE Finish(c, "PollingStopTimeoutError")
       ELSE /\ Goto(c, "st_cleanup")
            /\ UNCHANGED notified_stop
    /\ UNCHANGED <<polling_thread, stop_event, bot, tstate, tbot, stop_requested,
                   nbots, webhook, token_set, url_set, notified_poll>>
    /\ UNCHANGED <<dialogVars, auxVars>>

\* self._cleanup_completed_polling_thread(); return
StopCleanup(c) ==
    /\ caller[c].pc = "st_cleanup"
    /\ cleanup_completed_polling_thread
    /\ IF caller[c].ret = "idle"
       THEN Finish(c, "ok")
       ELSE Goto(c, caller[c].ret)
    /\ UNCHANGED <<tstate, tbot, stop_requested, nbots, webhook, token_set,
                   url_set, notified_stop, notified_poll>>
    /\ UNCHANGED <<dialogVars, auxVars>>

\* ------------------------------------------------------------------------
\* start_webhook
\* ------------------------------------------------------------------------
\* the call: token and url must be configured, then self.stop()
StartWebhookCall(c, maxCalls) ==
    /\ caller[c].pc = "idle"
    /\ TotalCalls < maxCalls
    /\ caller' = [caller EXCEPT ![c] =
                    IF token_set /\ url_set
                    THEN [Enter(c, "start_webhook", "st_set") EXCEPT
                             !.ret = "wh_create", !.timeout = DefaultTimeout]
                    ELSE [Enter(c, "start_webhook", "idle") EXCEPT !.res = "RuntimeError"]]
    /\ UNCHANGED <<polling_thread, stop_event, bot, tstate, tbot, stop_requested,
                   nbots, webhook, token_set, url_set, notified_stop, notified_poll>>
    /\ UNCHANGED <<dialogVars, auxVars>>

\* self._bot = self._create_bot(token); self._bot.remove_webhook()
StartWebhookCreateBot(c) ==
    /\ caller[c].pc = "wh_create"
    /\ CanCreateBot
    /\ nbots' = nbots + 1
    /\ bot' = nbots + 1
    /\ webhook' = FALSE
    /\ Goto(c, "wh_set")
    /\ UNCHANGED <<polling_thread, stop_event, tstate, tbot, stop_requested,
                   token_set, url_set, notified_stop, notified_poll>>
    /\ UNCHANGED <<dialogVars, auxVars>>

\* if not self._bot.set_webhook(url=webhook_url): raise RuntimeError
StartWebhookSet(c) ==
    /\ caller[c].pc = "wh_set"
    /\ \E accepted \in BOOLEAN :
         /\ webhook' = accepted
         /\ Finish(c, IF accepted THEN "ok" ELSE "RuntimeError")
    /\ UNCHANGED <<polling_thread, stop_event, bot, tstate, tbot, stop_requested,
                   nbots, token_set, url_set, notified_stop, notified_poll>>
    /\ UNCHANGED <<dialogVars, auxVars>>

\* ------------------------------------------------------------------------
\* _polling_loop, run by the worker thread
\* ------------------------------------------------------------------------
\* assert self._bot is not None
WorkerBegin(t) ==
    /\ tstate[t] = "started"
    /\ tstate' = [tstate EXCEPT ![t] = IF bot = None THEN "dead" ELSE "loop"]
    /\ UNCHANGED <<polling_thread, stop_event, bot, tbot, stop_requested, nbots,
                   webhook, token_set, url_set, notified_stop, notified_poll, caller>>
    /\ UNCHANGED <<dialogVars, auxVars>>

\* variant: the loop test does not look at the stop signal
WorkerLoop_forever(t) ==
    /\ tstate[t] = "loop"
    /\ tstate' = [tstate EXCEPT ![t] = "enter"]
    /\ UNCHANGED <<polling_thread, stop_event, bot, tbot, stop_requested, nbots,
                   webhook, token_set, url_set, notified_stop, notified_poll, caller>>
    /\ UNCHANGED <<dialogVars, auxVars>>

\* while not self._stop_event.is_set()
WorkerLoop(t) ==
    /\ tstate[t] = "loop"
    /\ tstate' = [tstate EXCEPT ![t] = IF stop_event THEN "dead" ELSE "enter"]
    /\ UNCHANGED <<polling_thread, stop_event, bot, tbot, stop_requested, nbots,
                   webhook, token_set, url_set, notified_stop, notified_poll, caller>>
    /\ UNCHANGED <<dialogVars, auxVars>>

\* self._bot.infinity_polling(...): enter the blocking receive cycle
WorkerEnter(t) ==
    /\ tstate[t] = "enter"
    /\ IF bot = None
       THEN tstate' = [tstate EXCEPT ![t] = "except"] /\ UNCHANGED tbot
       ELSE tstate' = [tstate EXCEPT ![t] = "recv"] /\ tbot' = [tbot EXCEPT ![t] = bot]
    /\ UNCHANGED <<polling_thread, stop_event, bot, stop_requested, nbots,
                   webhook, token_set, url_set, notified_stop, notified_poll, caller>>
    /\ UNCHANGED <<dialogVars, auxVars>>

\* the receive cycle returns normally
WorkerReceiveReturns(t) ==
    /\ tstate[t] = "recv"
    /\ tstate' = [tstate EXCEPT ![t] = "loop"]
    /\ tbot' = [tbot EXCEPT ![t] = None]
    /\ UNCHANGED <<polling_thread, stop_event, bot, stop_requested, nbots,
                   webhook, token_set, url_set, notified_stop, notified_poll, caller>>
    /\ UNCHANGED <<dialogVars, auxVars>>

\* variant: the exception of a receive cycle ends the worker
WorkerReceiveRaises_uncaught(t) ==
    /\ tstate[t] = "recv"
    /\ tstate' = [tstate EXCEPT ![t] = "dead"]
    /\ tbot' = [tbot EXCEPT ![t] = None]
    /\ UNCHANGED <<polling_thread, stop_event, bot, stop_requested, nbots,
                   webhook, token_set, url_set, notified_stop, notified_poll, caller>>
    /\ UNCHANGED <<dialogVars, auxVars>>

\* the receive cycle raises: control reaches "except Exception"
WorkerReceiveRaises(t) ==
    /\ tstate[t] = "recv"
    /\ tstate' = [tstate EXCEPT ![t] = "except"]
    /\ tbot' = [tbot EXCEPT ![t] = None]
    /\ UNCHANGED <<polling_thread, stop_event, bot, stop_requested, nbots,
                   webhook, token_set, url_set, notified_stop, notified_poll, caller>>
    /\ UNCHANGED <<dialogVars, auxVars>>

\* logger.exception(...); self._notify_polling_error(exc)
WorkerExcept(t) ==
    /\ tstate[t] = "except"
    /\ notified_poll' = notified_poll \cup {t}
    /\ tstate' = [tstate EXCEPT ![t] = "backoff"]
    /\ UNCHANGED <<polling_thread, stop_event, bot, tbot, stop_requested, nbots,
                   webhook, token_set, url_set, notified_stop, caller>>
    /\ UNCHANGED <<dialogVars, auxVars>>

\* time.sleep(5) is over: back to the loop head
WorkerBackoff(t) ==
    /\ tstate[t] = "backoff"
    /\ tstate' = [tstate EXCEPT ![t] = "loop"]
    /\ UNCHANGED <<polling_thread, stop_event, bot, tbot, stop_requested, nbots,
                   webhook, token_set, url_set, notified_stop, notified_poll, caller>>
    /\ UNCHANGED <<dialogVars, auxVars>>

\* ------------------------------------------------------------------------
\* Settings edited by the operator (admin API: settings_service.set)
\* ------------------------------------------------------------------------
UpdateSettings(token, url) ==
    /\ <<token, url>> # <<token_set, url_set>>
    /\ token_set' = token
    /\ url_set' = url
    /\ UNCHANGED <<polling_thread, stop_event, bot, tstate, tbot, stop_requested,
                   nbots, webhook, notified_stop, notified_poll, caller>>
    /\ UNCHANGED <<dialogVars, auxVars>>

\* tokens_used before line 80 / line 60 is reached
NotComputed == -1

\* what a field of the usage object holds when the key is missing / null
Absent == -1
Null == -2

\* data["usage"] when the key is missing or null
NoUsage(kind) ==
    [kind |-> kind, total_tokens |-> Absent, prompt_tokens |-> Absent,
     completion_tokens |-> Absent, input_tokens |-> Absent,
     output_tokens |-> Absent]

\* a body with nothing in it: {}
EmptyResponse ==
    [object |-> "none", choices |-> "missing", output_text |-> FALSE,
     output |-> <<>>, content |-> FALSE, usage |-> NoUsage("missing")]

\* no extract_message call yet
NotExtracted ==
    [by |-> "none", outcome |-> "none", message |-> <<>>, tokens_used |-> NotComputed]

\* ids of the LLMProvider rows
ProviderIds == {1, 2}

\* a provider as manage_providers creates it before any key is entered
NewProvider == [vendor |-> "openai", api_key |-> "", updated_at |-> 0]

\* no BaseProviderClient
NoClient == [vendor |-> "none", api_key |-> ""]

\* self._clients.get(provider.id) is None
NoEntry == [signature |-> <<>>, client |-> NoClient]

\* no _get_client call yet
NotGot ==
    [provider |-> 0, seen |-> NewProvider, previous |-> NoEntry,
     hit |-> FALSE, client |-> NoClient]

\* User.query...first() found nothing
NoRow == [telegram_id |-> 0, username |-> "", full_name |-> ""]

\* a handler outside _get_or_create_user
IdleUpsert == [pc |-> "idle", username |-> "", full_name |-> "", loaded |-> NoRow]

\* title="Диалог" of a Dialog row created by _handle_message: one of the
\* placeholder titles, a word of six letters (the run "D" stands for it)
PlaceholderTitle == <<[c |-> "D", n |-> 6]>>
\* _format_dialog_title has not been called since the last turn
NotShown == <<[c |-> "none", n |-> 0]>>

\* no backend request has been built yet
NoRequest == [by |-> "none", outcome |-> "none", params |-> {}]

\* no _determine_effective_dialog_limit call yet
NotDetermined == [form |-> "none", log |-> 0, value |-> 0]

\* the variables outside Part I and Part II before any push request
InitAux ==
    /\ webhook_secret = NoSecret
    /\ ensured = FALSE
    /\ delivered = {}
    /\ answered = {}
    /\ requests = 0
    /\ text = <<>>
    /\ chunks = <<>>
    /\ chunked = FALSE
    /\ error_recipients = {}
    /\ provider_messages = {}
    /\ replied = {}
    /\ backend_requests = <<>>
    /\ active_model_id = Unset
    /\ default_models = {}
    /\ selected = NotCalled
    /\ limit_exceeded = FALSE
    /\ outbox = <<>>
    /\ reply_sent = FALSE
    /\ openai_api_key = FALSE
    /\ client_calls = <<>>
    /\ http_posts = <<>>
    /\ response_data = EmptyResponse
    /\ extraction = NotExtracted
    /\ providers = [p \in ProviderIds |-> NewProvider]
    /\ clients = [p \in ProviderIds |-> NoEntry]
    /\ got = NotGot
    /\ now = 0
    /\ edits = 0
    /\ users = <<>>
    /\ uhandler = [h \in Handlers |-> IdleUpsert]
    /\ received = 0
    /\ last_username = ""
    /\ last_full_name = ""
    /\ effective = NotDetermined
    /\ title = PlaceholderTitle
    /\ first_message = <<>>
    /\ turns = 0
    /\ shown = NotShown
    /\ model_config = <<>>
    /\ model_name = <<>>
    /\ rules_map = <<>>
    /\ request = NoRequest
    /\ bot_messages = <<>>
    /\ assistant_ids = <<>>
    /\ loop_text = <<>>
    /\ loop_remaining = <<>>
    /\ loop_first = TRUE
    /\ loop_chunks = <<>>
    /\ loop_pc = "idle"

\* a handler of the bot client between two updates
IdleHandler == [pc |-> "idle", op |-> "none", user |-> 0, dialog |-> 0, idx |-> 0,
                log |-> 0, limit |-> NoLimit, total |-> 0, target |-> 0,
                tactive |-> FALSE, tended |-> FALSE, active |-> {}]


\* ------------------------------------------------------------------------
\* Specifications of the lifecycle manager
\* ------------------------------------------------------------------------
\* TelegramBotManager.__init__, with the settings found in the store
InitLifecycle ==
    /\ polling_thread = None
    /\ stop_event = FALSE
    /\ bot = None
    /\ tstate = [t \in Threads |-> "unborn"]
    /\ tbot = [t \in Threads |-> None]
    /\ stop_requested = {}
    /\ nbots = 0
    /\ webhook = FALSE
    /\ token_set \in BOOLEAN
    /\ url_set \in BOOLEAN
    /\ notified_stop = {}
    /\ notified_poll = {}
    /\ caller = [c \in CallerIds |-> IdleCaller]
    /\ dialogs = <<>>
    /\ logs = <<>>
    /\ dialog_token_limit = 0
    /\ models = {}
    /\ bot_paused = FALSE
    /\ user_active = [u \in Users |-> TRUE]
    /\ sent = {}
    /\ backend_calls = {}
    /\ handler = [h \in Handlers |-> IdleHandler]
    /\ events = 0
    /\ InitAux

WaitArgs == {NoWait} \cup (0..MaxWait)

CallerStep(c, maxCalls, timeouts, waits) ==
    \/ StartPollingCall(c, maxCalls)
    \/ StartPollingConflict(c)
    \/ StartPollingRunning(c)
    \/ StartPollingToken(c)
    \/ StartPollingCreateBot(c)
    \/ StartPollingClear(c)
    \/ StartPollingThread(c)
    \/ StartPollingStart(c)
    \/ \E timeout \in timeouts, max_wait \in waits :
          StopCall(c, maxCalls, timeout, max_wait)
    \/ StopSet(c)
    \/ StopBot(c)
    \/ StopThread(c)
    \/ StopWait(c)
    \/ StopJoin(c)
    \/ StopCheck(c)
    \/ StopCleanup(c)
    \/ StartWebhookCall(c, maxCalls)
    \/ StartWebhookCreateBot(c)
    \/ StartWebhookSet(c)

WorkerStep(t) ==
    \/ WorkerBegin(t)
    \/ WorkerLoop(t)
    \/ WorkerEnter(t)
    \/ WorkerReceiveReturns(t)
    \/ WorkerReceiveRaises(t)
    \/ WorkerExcept(t)
    \/ WorkerBackoff(t)

\* one caller at a time, next to the worker threads
NextLifecycle ==
    \/ CallerStep(1, MaxCalls, 0..MaxTimeout, WaitArgs)
    \/ \E t \in Threads : WorkerStep(t)
    \/ \E token \in BOOLEAN, url \in BOOLEAN : UpdateSettings(token, url)

LifecycleSpec == InitLifecycle /\ [][NextLifecycle]_vars

\* two concurrent callers (two admin requests at once); the admin API calls
\* start_polling(), stop() and start_webhook() with their default arguments
NextConcurrent ==
    \/ \E c \in CallerIds : CallerStep(c, MaxConcCalls, {DefaultTimeout}, {NoWait})
    \/ \E t \in Threads : WorkerStep(t)

ConcurrentLifecycleSpec == InitLifecycle /\ [][NextConcurrent]_vars

\* the outcomes of a call that are errors raised to the caller
RaisedOutcomes == {"RuntimeError", "PollingStopTimeoutError"}

\* a step after which caller 1 is in, or has just left, a start_polling
\* call that has seen no token creates no bot client and no thread
StartsNothingWithoutToken ==
    (caller'[1].op = "start_polling" /\ ~caller'[1].token) =>
        /\ nbots' = nbots
        /\ \A t \in Threads : tstate[t] = "unborn" => tstate'[t] = "unborn"

\* the step that ends a start_polling call of caller 1 that has seen no
\* token, while none is configured
EndsStartWithoutToken ==
    /\ caller[1].op = "start_polling" /\ caller[1].pc # "idle"
    /\ caller'[1].pc = "idle"
    /\ ~caller'[1].token /\ ~token_set'

HGoto(h, p) == handler' = [handler EXCEPT ![h].pc = p]
HDone(h) == handler' = [handler EXCEPT ![h].pc = "idle"]

\* self._send_message(...): one more message in the chat of the user
Send(u, kind, log) == sent' = sent \cup {[to |-> u, kind |-> kind, log |-> log]}

\* Dialog(user_id=u, ...): a dialog starts active, with no end time
NewDialog(u) == [user |-> u, is_active |-> TRUE, ended |-> FALSE]

DialogIds == 1..Len(dialogs)
LogIds == 1..Len(logs)

\* rows of a dialog
LogsOf(d) == {l \in LogIds : logs[l].dialog = d}

\* Dialog.query.filter_by(user_id=..., is_active=True)
ActiveDialogs(u) == {d \in DialogIds : dialogs[d].user = u /\ dialogs[d].is_active}

\* _get_active_dialog: the active dialog started last, or None
get_active_dialog(u) ==
    IF ActiveDialogs(u) = {} THEN None
    ELSE CHOOSE d \in ActiveDialogs(u) : \A e \in ActiveDialogs(u) : e <= d

RECURSIVE SumTokens(_)
SumTokens(S) == IF S = {} THEN 0
                ELSE LET l == CHOOSE x \in S : TRUE
                     IN logs[l].tokens + SumTokens(S \ {l})

\* _calculate_dialog_usage: coalesce(sum(tokens_used), 0) over the dialog
calculate_dialog_usage(d) == SumTokens(LogsOf(d))

\* the row _determine_effective_dialog_limit takes the model from: the row
\* of the dialog with a model id that has the largest message_index
SourceEntries(d) ==
    {l \in LogsOf(d) : /\ logs[l].model # None
                       /\ \A k \in LogsOf(d) : logs[k].model # None => logs[k].idx <= logs[l].idx}

\* _determine_effective_dialog_limit(dialog=d) for source row l (0: none)
effective_limit_from(l) ==
    LET configured == IF dialog_token_limit > 0 THEN dialog_token_limit ELSE NoLimit
        model_limit == IF l # 0 /\ logs[l].model \in models /\ ModelLimit[logs[l].model] > 0
                       THEN ModelLimit[logs[l].model] ELSE NoLimit
        limits == {v \in {configured, model_limit} : v > 0}
    IN IF limits = {} THEN NoLimit
       ELSE CHOOSE v \in limits : \A w \in limits : v <= w

\* the values _determine_effective_dialog_limit(dialog=d) can return
determine_effective_dialog_limit(d) ==
    IF SourceEntries(d) = {} THEN {effective_limit_from(0)}
    ELSE {effective_limit_from(l) : l \in SourceEntries(d)}

\* ------------------------------------------------------------------------
\* _handle_message
\* ------------------------------------------------------------------------
\* variant: the is_active flag of the user is not looked at
MsgBegin_no_access(h, u) ==
    /\ handler[h].pc = "idle"
    /\ events < MaxEvents
    /\ events' = events + 1
    /\ IF bot_paused
       THEN /\ Send(u, "pause", 0)
            /\ handler' = [handler EXCEPT ![h] = [IdleHandler EXCEPT !.op = "message", !.user = u]]
       ELSE IF FALSE
            THEN /\ Send(u, "restricted", 0)
                 /\ handler' = [handler EXCEPT ![h] = [IdleHandler EXCEPT !.op = "message", !.user = u]]
            ELSE /\ UNCHANGED sent
                 /\ handler' = [handler EXCEPT ![h] = [IdleHandler EXCEPT
                        !.op = "message", !.user = u, !.dialog = get_active_dialog(u),
                        !.pc = IF get_active_dialog(u) = None THEN "m_create" ELSE "m_count"]]
    /\ UNCHANGED <<dialogs, logs, dialog_token_limit, models, bot_paused,
                   user_active, backend_calls>>
    /\ UNCHANGED <<lifecycleVars, auxVars>>

\* variant: the pause setting is not looked at
MsgBegin_no_pause(h, u) ==
    /\ handler[h].pc = "idle"
    /\ events < MaxEvents
    /\ events' = events + 1
    /\ IF FALSE
       THEN /\ Send(u, "pause", 0)
            /\ handler' = [handler EXCEPT ![h] = [IdleHandler EXCEPT !.op = "message", !.user = u]]
       ELSE IF ~user_active[u]
            THEN /\ Send(u, "restricted", 0)
                 /\ handler' = [handler EXCEPT ![h] = [IdleHandler EXCEPT !.op = "message", !.user = u]]
            ELSE /\ UNCHANGED sent
                 /\ handler' = [handler EXCEPT ![h] = [IdleHandler EXCEPT
                        !.op = "message", !.user = u, !.dialog = get_active_dialog(u),
                        !.pc = IF get_active_dialog(u) = None THEN "m_create" ELSE "m_count"]]
    /\ UNCHANGED <<dialogs, logs, dialog_token_limit, models, bot_paused,
                   user_active, backend_calls>>
    /\ UNCHANGED <<lifecycleVars, auxVars>>

\* pause test, access test, then the query for the active dialog
MsgBegin(h, u) ==
    /\ handler[h].pc = "idle"
    /\ events < MaxEvents
    /\ events' = events + 1
    /\ IF bot_paused
       THEN /\ Send(u, "pause", 0)
            /\ handler' = [handler EXCEPT ![h] = [IdleHandler EXCEPT !.op = "message", !.user = u]]
       ELSE IF ~user_active[u]
            THEN /\ Send(u, "restricted", 0)
                 /\ handler' = [handler EXCEPT ![h] = [IdleHandler EXCEPT !.op = "message", !.user = u]]
            ELSE /\ UNCHANGED sent
                 /\ handler' = [handler EXCEPT ![h] = [IdleHandler EXCEPT
                        !.op = "message", !.user = u, !.dialog = get_active_dialog(u),
                        !.pc = IF get_active_dialog(u) = None THEN "m_create" ELSE "m_count"]]
    /\ UNCHANGED <<dialogs, logs, dialog_token_limit, models, bot_paused,
                   user_active, backend_calls>>
    /\ UNCHANGED <<lifecycleVars, auxVars>>

\* no active dialog was found: insert one and commit
MsgCreateDialog(h) ==
    /\ handler[h].pc = "m_create"
    /\ dialogs' = Append(dialogs, NewDialog(handler[h].user))
    /\ handler' = [handler EXCEPT ![h].dialog = Len(dialogs) + 1, ![h].pc = "m_count"]
    /\ UNCHANGED <<logs, dialog_token_limit, models, bot_paused, user_active,
                   sent, backend_calls, events>>
    /\ UNCHANGED <<lifecycleVars, auxVars>>

\* message_index = MessageLog.query.filter_by(dialog_id=dialog.id).count() + 1
MsgCount(h) ==
    /\ handler[h].pc = "m_count"
    /\ handler' = [handler EXCEPT ![h].idx = Cardinality(LogsOf(handler[h].dialog)) + 1,
                      ![h].pc = "m_insert"]
    /\ UNCHANGED <<dialogs, logs, dialog_token_limit, models, bot_paused,
                   user_active, sent, backend_calls, events>>
    /\ UNCHANGED <<lifecycleVars, auxVars>>

\* db.session.add(log_entry); db.session.commit()
MsgInsert(h) ==
    /\ handler[h].pc = "m_insert"
    /\ logs' = Append(logs, [dialog |-> handler[h].dialog, idx |-> handler[h].idx,
                             tokens |-> 0, model |-> None, resp |-> "none",
                             responded |-> FALSE])
    /\ handler' = [handler EXCEPT ![h].log = Len(logs) + 1, ![h].pc = "m_limit"]
    /\ UNCHANGED <<dialogs, dialog_token_limit, models, bot_paused, user_active,
                   sent, backend_calls, events>>
    /\ UNCHANGED <<lifecycleVars, auxVars>>

\* variant: a dialog gets the limit notice once, later turns go through
MsgCheckLimit_once(h) ==
    /\ handler[h].pc = "m_limit"
    /\ \E limit \in determine_effective_dialog_limit(handler[h].dialog) :
         LET total == calculate_dialog_usage(handler[h].dialog)
         IN IF /\ limit # NoLimit /\ total >= limit
               /\ \A l \in LogsOf(handler[h].dialog) : logs[l].resp # "limit_notice"
            THEN /\ Send(handler[h].user, "limit_notice", handler[h].log)
                 /\ logs' = [logs EXCEPT ![handler[h].log].resp = "limit_notice"]
                 /\ handler' = [handler EXCEPT ![h].limit = limit, ![h].total = total,
                                   ![h].pc = "idle"]
            ELSE /\ handler' = [handler EXCEPT ![h].limit = limit, ![h].total = total,
                                   ![h].pc = "m_query"]
                 /\ UNCHANGED <<sent, logs>>
    /\ UNCHANGED <<dialogs, dialog_token_limit, models, bot_paused, user_active,
                   backend_calls, events>>
    /\ UNCHANGED <<lifecycleVars, auxVars>>

\* variant: the budget test uses ">" instead of ">="
MsgCheckLimit_strict(h) ==
    /\ handler[h].pc = "m_limit"
    /\ \E limit \in determine_effective_dialog_limit(handler[h].dialog) :
         LET total == calculate_dialog_usage(handler[h].dialog)
         IN IF limit # NoLimit /\ total > limit
            THEN /\ Send(handler[h].user, "limit_notice", handler[h].log)
                 /\ logs' = [logs EXCEPT ![handler[h].log].resp = "limit_notice"]
                 /\ handler' = [handler EXCEPT ![h].limit = limit, ![h].total = total,
                                   ![h].pc = "idle"]
            ELSE /\ handler' = [handler EXCEPT ![h].limit = limit, ![h].total = total,
                                   ![h].pc = "m_query"]
                 /\ UNCHANGED <<sent, logs>>
    /\ UNCHANGED <<dialogs, dialog_token_limit, models, bot_paused, user_active,
                   backend_calls, events>>
    /\ UNCHANGED <<lifecycleVars, auxVars>>

\* limit_before / total_before: when the budget is used up, send the limit
\* notice, store it in the row and return
MsgCheckLimit(h) ==
    /\ handler[h].pc = "m_limit"
    /\ \E limit \in determine_effective_dialog_limit(handler[h].dialog) :
         LET total == calculate_dialog_usage(handler[h].dialog)
         IN IF limit # NoLimit /\ total >= limit
            THEN /\ Send(handler[h].user, "limit_notice", handler[h].log)
                 /\ logs' = [logs EXCEPT ![handler[h].log].resp = "limit_notice"]
                 /\ handler' = [handler EXCEPT ![h].limit = limit, ![h].total = total,
                                   ![h].pc = "idle"]
            ELSE /\ handler' = [handler EXCEPT ![h].limit = limit, ![h].total = total,
                                   ![h].pc = "m_query"]
                 /\ UNCHANGED <<sent, logs>>
    /\ UNCHANGED <<dialogs, dialog_token_limit, models, bot_paused, user_active,
                   backend_calls, events>>
    /\ UNCHANGED <<lifecycleVars, auxVars>>

\* chats of operators that are not users of the bot, and every chat that
\* error_notification_user_ids can name (a user's id is the id of the
\* private chat with that user)
Operators == {3}
Recipients == Users \cup Operators

\* variant: the chat the message came from is not skipped
ErrorNotifications_all(u, log) ==
    {[to |-> r, kind |-> "exception", log |-> log] : r \in error_recipients}

\* _notify_error_subscribers: the text with str(exception) goes to every
\* configured recipient except the chat the message came from
ErrorNotifications(u, log) ==
    {[to |-> r, kind |-> "exception", log |-> log] : r \in error_recipients \ {u}}

\* the "except Exception" branch of _handle_message: ERROR_USER_MESSAGE to
\* the user, then _notify_error_subscribers
SendFailure(u, log) ==
    sent' = sent \cup {[to |-> u, kind |-> "error", log |-> log]}
                 \cup ErrorNotifications(u, log)

RECURSIVE Orders(_)
\* the results .order_by(MessageLog.message_index.asc()).all() can give for
\* the rows S: rows with equal message_index come in any order
Orders(S) ==
    IF S = {} THEN {<<>>}
    ELSE UNION {{<<l>> \o o : o \in Orders(S \ {l})} :
                  l \in {x \in S : \A y \in S : logs[x].idx <= logs[y].idx}}

RECURSIVE TurnMessages_users_only(_)
\* variant: the stored answers are left out
TurnMessages_users_only(order) ==
    IF order = <<>> THEN <<>>
    ELSE <<[role |-> "user", log |-> order[1]]>> \o TurnMessages_users_only(Tail(order))

RECURSIVE TurnMessages(_)
\* the loop of _build_provider_messages: for every row its user message,
\* then its assistant message when llm_response is set
TurnMessages(order) ==
    IF order = <<>> THEN <<>>
    ELSE <<[role |-> "user", log |-> order[1]]>>
         \o (IF logs[order[1]].resp # "none"
             THEN <<[role |-> "assistant", log |-> order[1]]>> ELSE <<>>)
         \o TurnMessages(Tail(order))

\* _build_provider_messages(dialog, ...) for the rows in the given order
build_provider_messages(order) ==
    <<[role |-> "system", log |-> 0]>> \o TurnMessages(order)

\* _query_llm up to the request: _get_model_config raises when no model
\* configuration is stored, the message list is built, complete_chat raises
\* when the provider or its key is missing; otherwise the request with the
\* message list is sent to the backend.  rows and with_reply record what
\* the dialog held when the list was built.
MsgQuery(h) ==
    /\ handler[h].pc = "m_query"
    /\ \E ready \in BOOLEAN :
         IF models = {} \/ ~ready
         THEN /\ SendFailure(handler[h].user, handler[h].log)
              /\ HDone(h)
              /\ UNCHANGED <<backend_calls, provider_messages, backend_requests>>
         ELSE /\ backend_calls' = backend_calls \cup {handler[h].log}
              /\ backend_requests' = Append(backend_requests, handler[h].log)
              /\ \E order \in Orders(LogsOf(handler[h].dialog)) :
                   provider_messages' = provider_messages \cup
                       {[log |-> handler[h].log,
                         rows |-> LogsOf(handler[h].dialog),
                         with_reply |-> {l \in LogsOf(handler[h].dialog) :
                                            logs[l].resp # "none"},
                         messages |-> build_provider_messages(order)]}
              /\ HGoto(h, "m_backend")
              /\ UNCHANGED sent
    /\ UNCHANGED <<dialogs, logs, dialog_token_limit, models, bot_paused,
                   user_active, events>>
    /\ UNCHANGED <<error_recipients, replied>>
    /\ UNCHANGED <<lifecycleVars, notTurnVars>>

\* variant: a failed request is issued once more
MsgBackendDone_retry(h) ==
    /\ handler[h].pc = "m_backend"
    /\ \E returned \in BOOLEAN :
         /\ replied' = IF returned THEN replied \cup {handler[h].log} ELSE replied
         /\ IF ~returned /\ Len(SelectSeq(backend_requests,
                                      LAMBDA l : l = handler[h].log)) < 2
            THEN /\ HGoto(h, "m_query")
                 /\ UNCHANGED sent
            ELSE /\ SendFailure(handler[h].user, handler[h].log)
                 /\ HDone(h)
    /\ UNCHANGED <<dialogs, logs, dialog_token_limit, models, bot_paused,
                   user_active, backend_calls, events>>
    /\ UNCHANGED <<error_recipients, provider_messages, backend_requests>>
    /\ UNCHANGED <<lifecycleVars, notTurnVars>>

\* the request fails, or it returns a reply and extract_message calls
\* register_response(message, tokens_used) without its third argument:
\* either way an exception reaches "except Exception", the row keeps its
\* committed content, the user gets the generic error message and the
\* operators the notification
MsgBackendDone(h) ==
    /\ handler[h].pc = "m_backend"
    /\ \E returned \in BOOLEAN :
         replied' = IF returned THEN replied \cup {handler[h].log} ELSE replied
    /\ SendFailure(handler[h].user, handler[h].log)
    /\ HDone(h)
    /\ UNCHANGED <<dialogs, logs, dialog_token_limit, models, bot_paused,
                   user_active, backend_calls, events>>
    /\ UNCHANGED <<error_recipients, provider_messages, backend_requests>>
    /\ UNCHANGED <<lifecycleVars, notTurnVars>>

\* ------------------------------------------------------------------------
\* _handle_new_dialog
\* ------------------------------------------------------------------------
\* pause test, then the query for the current active dialog
NewDialogBegin(h, u) ==
    /\ handler[h].pc = "idle"
    /\ events < MaxEvents
    /\ events' = events + 1
    /\ IF bot_paused
       THEN /\ Send(u, "pause", 0)
            /\ handler' = [handler EXCEPT ![h] = [IdleHandler EXCEPT !.op = "new", !.user = u]]
       ELSE /\ UNCHANGED sent
            /\ handler' = [handler EXCEPT ![h] = [IdleHandler EXCEPT !.op = "new",
                   !.user = u, !.dialog = get_active_dialog(u), !.pc = "n_commit"]]
    /\ UNCHANGED <<dialogs, logs, dialog_token_limit, models, bot_paused,
                   user_active, backend_calls>>
    /\ UNCHANGED <<lifecycleVars, auxVars>>

\* Dialog.close(): the dialog is deactivated and its end time set
Close(ds, d) == [ds EXCEPT ![d].is_active = FALSE, ![d].ended = TRUE]

\* current_dialog.close(); db.session.add(new_dialog); db.session.commit()
NewDialogCommit(h) ==
    /\ handler[h].pc = "n_commit"
    /\ LET closed == IF handler[h].dialog # None THEN Close(dialogs, handler[h].dialog)
                     ELSE dialogs
       IN dialogs' = Append(closed, NewDialog(handler[h].user))
    /\ Send(handler[h].user, "new_dialog", 0)
    /\ HDone(h)
    /\ UNCHANGED <<logs, dialog_token_limit, models, bot_paused, user_active,
                   backend_calls, events>>
    /\ UNCHANGED <<lifecycleVars, auxVars>>

\* ------------------------------------------------------------------------
\* _handle_switch_dialog and _activate_dialog
\* ------------------------------------------------------------------------
\* variant: the target is looked up by id alone
SwitchBegin_any_owner(h, u, id) ==
    /\ handler[h].pc = "idle"
    /\ events < MaxEvents
    /\ events' = events + 1
    /\ IF bot_paused
       THEN /\ Send(u, "pause", 0)
            /\ handler' = [handler EXCEPT ![h] = [IdleHandler EXCEPT !.op = "switch", !.user = u]]
       ELSE IF id = 0
            THEN /\ Send(u, "undetermined", 0)
                 /\ handler' = [handler EXCEPT ![h] = [IdleHandler EXCEPT !.op = "switch", !.user = u]]
            ELSE IF id \notin DialogIds
                 THEN /\ Send(u, "not_found", 0)
                      /\ handler' = [handler EXCEPT ![h] = [IdleHandler EXCEPT !.op = "switch",
                             !.user = u, !.target = id]]
                 ELSE /\ UNCHANGED sent
                      /\ handler' = [handler EXCEPT ![h] = [IdleHandler EXCEPT !.op = "switch",
                             !.user = u, !.target = id, !.tactive = dialogs[id].is_active,
                             !.tended = dialogs[id].ended, !.pc = "s_select"]]
    /\ UNCHANGED <<dialogs, logs, dialog_token_limit, models, bot_paused,
                   user_active, backend_calls>>
    /\ UNCHANGED <<lifecycleVars, auxVars>>

\* pause test, _extract_dialog_id (id 0: malformed payload), then the query
\* for the target dialog of this user; target is the local dialog_id
SwitchBegin(h, u, id) ==
    /\ handler[h].pc = "idle"
    /\ events < MaxEvents
    /\ events' = events + 1
    /\ IF bot_paused
       THEN /\ Send(u, "pause", 0)
            /\ handler' = [handler EXCEPT ![h] = [IdleHandler EXCEPT !.op = "switch", !.user = u]]
       ELSE IF id = 0
            THEN /\ Send(u, "undetermined", 0)
                 /\ handler' = [handler EXCEPT ![h] = [IdleHandler EXCEPT !.op = "switch", !.user = u]]
            ELSE IF id \notin DialogIds \/ dialogs[id].user # u
                 THEN /\ Send(u, "not_found", 0)
                      /\ handler' = [handler EXCEPT ![h] = [IdleHandler EXCEPT !.op = "switch",
                             !.user = u, !.target = id]]
                 ELSE /\ UNCHANGED sent
                      /\ handler' = [handler EXCEPT ![h] = [IdleHandler EXCEPT !.op = "switch",
                             !.user = u, !.target = id, !.tactive = dialogs[id].is_active,
                             !.tended = dialogs[id].ended, !.pc = "s_select"]]
    /\ UNCHANGED <<dialogs, logs, dialog_token_limit, models, bot_paused,
                   user_active, backend_calls>>
    /\ UNCHANGED <<lifecycleVars, auxVars>>

\* _activate_dialog: the query for the active dialogs of the user
SwitchSelect(h) ==
    /\ handler[h].pc = "s_select"
    /\ handler' = [handler EXCEPT ![h].active = ActiveDialogs(handler[h].user),
                      ![h].pc = "s_commit"]
    /\ UNCHANGED <<dialogs, logs, dialog_token_limit, models, bot_paused,
                   user_active, sent, backend_calls, events>>
    /\ UNCHANGED <<lifecycleVars, auxVars>>

\* _activate_dialog: the other active dialogs are ended, the target is made
\* active (a field is written only when it differs from the loaded value)
SwitchCommit(h) ==
    /\ handler[h].pc = "s_commit"
    /\ dialogs' = [d \in DialogIds |->
                     IF d = handler[h].target
                     THEN [dialogs[d] EXCEPT
                             !.is_active = IF handler[h].tactive THEN @ ELSE TRUE,
                             !.ended = IF handler[h].tended THEN FALSE ELSE @]
                     ELSE IF d \in handler[h].active
                          THEN [dialogs[d] EXCEPT !.is_active = FALSE, !.ended = TRUE]
                          ELSE dialogs[d]]
    /\ Send(handler[h].user, "switched", 0)
    /\ HDone(h)
    /\ UNCHANGED <<logs, dialog_token_limit, models, bot_paused, user_active,
                   backend_calls, events>>
    /\ UNCHANGED <<lifecycleVars, auxVars>>

\* ------------------------------------------------------------------------
\* Settings edited by the operator: api_toggle_bot_pause
\* ------------------------------------------------------------------------
TogglePause ==
    /\ events < MaxEvents
    /\ events' = events + 1
    /\ bot_paused' = ~bot_paused
    /\ UNCHANGED <<dialogs, logs, dialog_token_limit, models, user_active,
                   sent, backend_calls, handler>>
    /\ UNCHANGED <<lifecycleVars, auxVars>>

\* ------------------------------------------------------------------------
\* Specifications of the session handling
\* ------------------------------------------------------------------------
\* a store as earlier runs left it: user 1 has no dialog, or one active
\* dialog with k answered turns (message_index 1..k) served by model m
StoredLogs(k, m) == [i \in 1..k |-> [dialog |-> 1, idx |-> i, tokens |-> TurnTokens,
                                     model |-> m, resp |-> "reply",
                                     responded |-> TRUE]]

InitDialog ==
    /\ polling_thread = None
    /\ stop_event = FALSE
    /\ bot = 1
    /\ tstate = [t \in Threads |-> "unborn"]
    /\ tbot = [t \in Threads |-> None]
    /\ stop_requested = {}
    /\ nbots = 1
    /\ webhook = TRUE
    /\ token_set = TRUE
    /\ url_set = TRUE
    /\ notified_stop = {}
    /\ notified_poll = {}
    /\ caller = [c \in CallerIds |-> IdleCaller]
    /\ \E k \in 0..MaxStoredTurns, m \in ModelIds :
         /\ logs = StoredLogs(k, m)
         /\ dialogs = IF k = 0 THEN <<>>
                      ELSE <<NewDialog(1)>>
    /\ dialog_token_limit \in 0..MaxLimit
    /\ models \in {{}, ModelIds}
    /\ bot_paused = FALSE
    /\ user_active \in {[u \in Users |-> TRUE], [u \in Users |-> u = 1]}
    /\ sent = {}
    /\ backend_calls = {}
    /\ handler = [h \in Handlers |-> IdleHandler]
    /\ events = 0
    /\ InitAux

HandlerStep(h) ==
    \/ \E u \in Users : MsgBegin(h, u)
    \/ MsgCreateDialog(h)
    \/ MsgCount(h)
    \/ MsgInsert(h)
    \/ MsgCheckLimit(h)
    \/ MsgQuery(h)
    \/ MsgBackendDone(h)
    \/ \E u \in Users : NewDialogBegin(h, u)
    \/ NewDialogCommit(h)
    \/ \E u \in Users, id \in 0..(Len(dialogs) + 1) : SwitchBegin(h, u, id)
    \/ SwitchSelect(h)
    \/ SwitchCommit(h)

\* the handlers of the bot client work on updates concurrently
NextDialog ==
    \/ \E h \in Handlers : HandlerStep(h)
    \/ TogglePause

DialogSpec == InitDialog /\ [][NextDialog]_vars

\* text messages only, with operators configured for error notifications
InitTurn ==
    /\ polling_thread = None
    /\ stop_event = FALSE
    /\ bot = 1
    /\ tstate = [t \in Threads |-> "unborn"]
    /\ tbot = [t \in Threads |-> None]
    /\ stop_requested = {}
    /\ nbots = 1
    /\ webhook = TRUE
    /\ token_set = TRUE
    /\ url_set = TRUE
    /\ notified_stop = {}
    /\ notified_poll = {}
    /\ caller = [c \in CallerIds |-> IdleCaller]
    /\ \E k \in 0..MaxStoredTurns, m \in ModelIds :
         /\ logs = StoredLogs(k, m)
         /\ dialogs = IF k = 0 THEN <<>>
                      ELSE <<NewDialog(1)>>
    /\ dialog_token_limit \in {0, MaxLimit}
    /\ models \in {{}, ModelIds}
    /\ bot_paused = FALSE
    /\ user_active = [u \in Users |-> TRUE]
    /\ sent = {}
    /\ backend_calls = {}
    /\ handler = [h \in Handlers |-> IdleHandler]
    /\ events = 0
    /\ webhook_secret = NoSecret
    /\ ensured = FALSE
    /\ delivered = {}
    /\ answered = {}
    /\ requests = 0
    /\ text = <<>>
    /\ chunks = <<>>
    /\ chunked = FALSE
    /\ error_recipients \in SUBSET Recipients
    /\ provider_messages = {}
    /\ replied = {}
    /\ backend_requests = <<>>
    /\ active_model_id = Unset
    /\ default_models = {}
    /\ selected = NotCalled
    /\ limit_exceeded = FALSE
    /\ outbox = <<>>
    /\ reply_sent = FALSE
    /\ openai_api_key = FALSE
    /\ client_calls = <<>>
    /\ http_posts = <<>>
    /\ response_data = EmptyResponse
    /\ extraction = NotExtracted
    /\ providers = [p \in ProviderIds |-> NewProvider]
    /\ clients = [p \in ProviderIds |-> NoEntry]
    /\ got = NotGot
    /\ now = 0
    /\ edits = 0
    /\ users = <<>>
    /\ uhandler = [h \in Handlers |-> IdleUpsert]
    /\ received = 0
    /\ last_username = ""
    /\ last_full_name = ""
    /\ effective = NotDetermined
    /\ title = PlaceholderTitle
    /\ first_message = <<>>
    /\ turns = 0
    /\ shown = NotShown
    /\ model_config = <<>>
    /\ model_name = <<>>
    /\ rules_map = <<>>
    /\ request = NoRequest
    /\ bot_messages = <<>>
    /\ assistant_ids = <<>>
    /\ loop_text = <<>>
    /\ loop_remaining = <<>>
    /\ loop_first = TRUE
    /\ loop_chunks = <<>>
    /\ loop_pc = "idle"

MessageStep(h) ==
    \/ \E u \in Users : MsgBegin(h, u)
    \/ MsgCreateDialog(h)
    \/ MsgCount(h)
    \/ MsgInsert(h)
    \/ MsgCheckLimit(h)
    \/ MsgQuery(h)
    \/ MsgBackendDone(h)

NextTurn == \E h \in Handlers : MessageStep(h)

TurnSpec == InitTurn /\ [][NextTurn]_vars

\* ------------------------------------------------------------------------
\* Properties of the session handling
\* ------------------------------------------------------------------------
\* C1: in every dialog the message_index values of its rows are exactly
\* 1..n, each once.
SequenceNumbersContiguous ==
    \A d \in DialogIds :
        \A i \in 1..Cardinality(LogsOf(d)) :
            Cardinality({l \in LogsOf(d) : logs[l].idx = i}) = 1

\* C2: every user has at most one dialog with is_active = true.
AtMostOneActiveDialog ==
    \A u \in Users : Cardinality(ActiveDialogs(u)) <= 1

\* the budget of the dialog is used up: the cumulative tokens have reached
\* the effective limit
BudgetUsedUp(d) ==
    \E limit \in determine_effective_dialog_limit(d) :
        limit # NoLimit /\ calculate_dialog_usage(d) >= limit

\* C3: when _handle_message reaches the budget test with the cumulative
\* tokens of the dialog at or above the effective limit, it sends the limit
\* notice and returns; no backend request is ever issued for that turn.
BudgetPreCheck ==
    /\ [][\A h \in Handlers :
            (/\ handler[h].pc = "m_limit"
             /\ handler'[h].pc # "m_limit"
             /\ BudgetUsedUp(handler[h].dialog)) =>
                (/\ handler'[h].pc = "idle"
                 /\ backend_calls' = backend_calls
                 /\ [to |-> handler[h].user, kind |-> "limit_notice",
                     log |-> handler[h].log] \in sent'
                 /\ logs'[handler[h].log].resp = "limit_notice")]_vars
    /\ [](\A l \in LogIds : logs[l].resp = "limit_notice" => l \notin backend_calls)
    /\ [](\A h \in Handlers :
            handler[h].pc \in {"m_query", "m_backend"} =>
                (handler[h].limit = NoLimit \/ handler[h].total < handler[h].limit))

BudgetPreCheck_witness ==
    \E l \in LogIds :
        /\ logs[l].resp = "limit_notice"
        /\ l \notin backend_calls
        /\ determine_effective_dialog_limit(logs[l].dialog) = {calculate_dialog_usage(logs[l].dialog)}
        /\ backend_calls # {}

\* the caller keeps running: its enabled steps are eventually taken; the
\* worker threads get no fairness, a blocking receive may never return
FairLifecycleSpec ==
    /\ InitLifecycle
    /\ [][NextLifecycle]_vars
    /\ WF_vars(CallerStep(1, MaxCalls, 0..MaxTimeout, WaitArgs))

\* ------------------------------------------------------------------------
\* Properties of the lifecycle manager
\* ------------------------------------------------------------------------
InStop(c) == caller[c].pc \in {"st_set", "st_bot", "st_thread", "st_wait",
                               "st_join", "st_check", "st_cleanup"}

AliveWorkers == {t \in Threads : IsAlive(t)}

\* C4: stop() waits for the worker only for a bounded time: every stop()
\* call eventually returns or raises, whether or not max_wait is given and
\* whether or not the worker ever exits.
StopWaitIsBounded ==
    (caller[1].op = "stop" /\ InStop(1)) ~> (caller[1].pc = "idle")

\* C5: whenever stop() has raised PollingStopTimeoutError, the worker handle
\* and the bot client are the ones stop() found, the stop signal is set and
\* the failure callback has been invoked for this call.
StopTimeoutKeepsState ==
    \A c \in CallerIds :
        (caller[c].pc = "idle" /\ caller[c].res = "PollingStopTimeoutError") =>
            /\ polling_thread = caller[c].thread
            /\ polling_thread = caller[c].old_thread
            /\ polling_thread # None
            /\ bot = caller[c].bot
            /\ stop_event
            /\ <<c, caller[c].calls>> \in notified_stop

StopTimeoutKeepsState_witness ==
    /\ caller[1].pc = "idle"
    /\ caller[1].res = "PollingStopTimeoutError"
    /\ bot # None
    /\ IsAlive(polling_thread)

\* C6: a stop() that follows a timed-out stop() and finishes when the worker
\* has exited returns normally and leaves the handle None, the bot client
\* None and the stop signal cleared.
StopAfterTimeoutResets ==
    [][\A c \in CallerIds :
          (/\ caller[c].op = "stop"
           /\ caller[c].prev = "PollingStopTimeoutError"
           /\ caller[c].pc # "idle"
           /\ caller'[c].pc = "idle"
           /\ ~IsAlive(polling_thread)) =>
              (/\ caller'[c].res = "ok"
               /\ polling_thread' = None
               /\ bot' = None
               /\ ~stop_event')]_vars

StopAfterTimeoutResets_witness ==
    /\ caller[1].op = "stop"
    /\ caller[1].pc = "idle"
    /\ caller[1].prev = "PollingStopTimeoutError"
    /\ caller[1].res = "ok"
    /\ caller[1].old_thread # None
    /\ caller[1].bot # None
    /\ polling_thread = None
    /\ bot = None
    /\ ~stop_event

\* C7: a step of start_polling() taken while the handle refers to a live
\* worker and the stop signal is set changes nothing in the manager, and
\* the conflict test then raises.
StartPollingRefusedDuringStop ==
    [][\A c \in CallerIds :
          (/\ caller'[c] # caller[c]
           /\ caller'[c].op = "start_polling"
           /\ caller[c].pc \in {"idle", "sp_conflict"}
           /\ IsAlive(polling_thread)
           /\ stop_event) =>
              (/\ UNCHANGED <<polling_thread, stop_event, bot, nbots, tstate>>
               /\ caller[c].pc = "sp_conflict" =>
                     (caller'[c].pc = "idle" /\ caller'[c].res = "RuntimeError"))]_vars

StartPollingRefusedDuringStop_witness ==
    /\ caller[1].op = "start_polling"
    /\ caller[1].pc = "idle"
    /\ caller[1].res = "RuntimeError"
    /\ caller[1].prev = "PollingStopTimeoutError"
    /\ IsAlive(polling_thread)
    /\ stop_event

\* the handle found by the running start_polling() call referred to a worker
\* that had already terminated
FoundStaleHandle(c) ==
    /\ caller[c].op = "start_polling"
    /\ caller[c].old_thread # None
    /\ ~caller[c].old_alive

\* C8 as stated: start_polling() that finds a terminated worker ends with
\* a new worker in the handle and the stop signal cleared.
StaleHandleAlwaysRestarted ==
    \A c \in CallerIds :
        (FoundStaleHandle(c) /\ caller[c].pc = "idle") =>
            /\ polling_thread # None
            /\ polling_thread # caller[c].old_thread
            /\ ~stop_event

\* C8 as amended: the same, provided the bot token is configured when
\* start_polling() reads it; the terminated worker is discarded in any case.
StaleHandleRestartedWithToken ==
    \A c \in CallerIds :
        (FoundStaleHandle(c) /\ caller[c].pc = "idle") =>
            /\ polling_thread # caller[c].old_thread
            /\ caller[c].token =>
                  /\ caller[c].res = "ok"
                  /\ polling_thread # None
                  /\ tstate[polling_thread] # "new"
                  /\ ~stop_event

StaleHandleRestartedWithToken_witness ==
    /\ FoundStaleHandle(1)
    /\ caller[1].pc = "idle"
    /\ caller[1].prev = "PollingStopTimeoutError"
    /\ caller[1].res = "ok"
    /\ IsAlive(polling_thread)

\* C9: at most one polling worker is alive at any time.
AtMostOneWorkerAlive == Cardinality(AliveWorkers) <= 1

\* C10: a worker terminates only when the stop signal is set; an exception
\* of a receive cycle is reported to the failure callback, followed by the
\* backoff and then by the loop head again.
WorkerSurvivesErrors ==
    [][\A t \in Threads :
          /\ (IsAlive(t) /\ ~IsAlive(t)') => stop_event
          /\ (tstate[t] = "recv" /\ tstate'[t] # "recv") => tstate'[t] \in {"loop", "except"}
          /\ (tstate[t] = "except" /\ tstate'[t] # "except") =>
                (tstate'[t] = "backoff" /\ t \in notified_poll')
          /\ (tstate[t] = "backoff" /\ tstate'[t] # "backoff") => tstate'[t] = "loop"]_vars

WorkerSurvivesErrors_witness ==
    \E t \in Threads :
        /\ t \in notified_poll
        /\ tstate[t] = "recv"
        /\ ~stop_event

\* the steps of the worker thread that are its own: they take place
\* whenever the thread is scheduled
WorkerProgress(t) ==
    \/ WorkerBegin(t)
    \/ WorkerLoop(t)
    \/ WorkerEnter(t)
    \/ WorkerExcept(t)
    \/ WorkerBackoff(t)

\* the receive cycle of a bot on which stop_polling() was called ends, by
\* returning or by raising
AbortedReceiveEnds(t) ==
    /\ tbot[t] # None
    /\ tbot[t] \in stop_requested
    /\ (WorkerReceiveReturns(t) \/ WorkerReceiveRaises(t))

\* one caller next to the worker threads, with stop() waiting without a
\* limit or not at all; the threads are scheduled and an aborted receive
\* ends, a receive that was not aborted may last for ever
NextWorker ==
    \/ CallerStep(1, MaxWorkerCalls, {DefaultTimeout}, {NoWait, 0})
    \/ \E t \in Threads : WorkerStep(t)
    \/ \E token \in BOOLEAN, url \in BOOLEAN : UpdateSettings(token, url)

FairWorkerSpec ==
    /\ InitLifecycle
    /\ [][NextWorker]_vars
    /\ WF_vars(\E t \in Threads : WorkerProgress(t) \/ AbortedReceiveEnds(t))

\* stop() has set the stop signal and called stop_polling() on the bot of
\* the running worker
StopSignalled ==
    /\ is_running
    /\ stop_event
    /\ bot # None
    /\ bot \in stop_requested

\* C27: once stop() has set the stop signal and asked the bot client to
\* abort its receive, the polling worker terminates: is_running() becomes
\* false.
StopTerminatesWorker == StopSignalled ~> ~is_running

\* stop() has signalled a worker that is inside its blocking receive
StopTerminatesWorker_witness ==
    /\ StopSignalled
    /\ tstate[polling_thread] = "recv"

\* C26: a live polling worker and a registered push endpoint never coexist,
\* whatever start_polling(), start_webhook() and stop() calls were made.
OneDeliveryMode ==
    ~(webhook /\ AliveWorkers # {})

\* ========================================================================
\* Part III - push (webhook) entry points
\* ========================================================================
\* the routes that take push requests of the transport
Entries == {"process_webhook", "telegram_webhook_handler", "telegram_webhook",
            "admin_telegram_webhook"}

Answer(entry, header, status) ==
    answered' = answered \cup {[entry |-> entry, header |-> header,
                                secret |-> webhook_secret, status |-> status]}

\* bot.process_new_updates([update]) for a request that came with `header`
\* while the setting was webhook_secret
Deliver(entry, header) ==
    delivered' = delivered \cup {[entry |-> entry, header |-> header,
                                  secret |-> webhook_secret]}

\* TelegramBotManager.process_webhook of app/bot/__init__.py: 503 without a
\* token, 403 when a secret is configured and the header differs, 400 for a
\* body that is not JSON, else the update goes to the handlers
process_webhook(header, body_ok) ==
    /\ requests < MaxRequests
    /\ requests' = requests + 1
    /\ IF ~token_set
       THEN /\ Answer("process_webhook", header, 503)
            /\ UNCHANGED <<ensured, delivered>>
       ELSE /\ ensured' = TRUE
            /\ IF webhook_secret # NoSecret /\ header # webhook_secret
               THEN /\ Answer("process_webhook", header, 403)
                    /\ UNCHANGED delivered
               ELSE IF ~body_ok
                    THEN /\ Answer("process_webhook", header, 400)
                         /\ UNCHANGED delivered
                    ELSE /\ Deliver("process_webhook", header)
                         /\ Answer("process_webhook", header, 200)
    /\ UNCHANGED webhook_secret
    /\ UNCHANGED <<lifecycleVars, dialogVars, notWebhookVars>>

\* the routes that hand the body to BotLifecycleMixin.process_webhook_update
\* (telegram_webhook_handler, web/webhook.py telegram_webhook, the admin
\* route): get_json(force=True) answers 400 for a body that is not JSON;
\* process_webhook_update creates the bot when there is none, returns when
\* no token is configured, else passes the update to the handlers
process_webhook_update(entry, header, body_ok) ==
    /\ entry \in Entries \ {"process_webhook"}
    /\ requests < MaxRequests
    /\ requests' = requests + 1
    /\ IF ~body_ok
       THEN /\ Answer(entry, header, 400)
            /\ UNCHANGED <<delivered, bot, nbots, webhook>>
       ELSE /\ Answer(entry, header, 200)
            /\ IF bot = None /\ ~token_set
               THEN UNCHANGED <<delivered, bot, nbots, webhook>>
               ELSE /\ Deliver(entry, header)
                    /\ IF bot = None
                       THEN /\ CanCreateBot
                            /\ nbots' = nbots + 1
                            /\ bot' = nbots + 1
                       ELSE UNCHANGED <<bot, nbots>>
                    /\ UNCHANGED webhook
    /\ UNCHANGED <<webhook_secret, ensured>>
    /\ UNCHANGED <<polling_thread, stop_event, tstate, tbot, stop_requested,
                   token_set, url_set, notified_stop, notified_poll, caller>>
    /\ UNCHANGED <<dialogVars, notWebhookVars>>

\* the operator edits the webhook_secret setting
UpdateWebhookSecret(secret) ==
    /\ secret # webhook_secret
    /\ webhook_secret' = secret
    /\ UNCHANGED <<ensured, delivered, answered, requests>>
    /\ UNCHANGED <<lifecycleVars, dialogVars, notWebhookVars>>

InitWebhook ==
    /\ polling_thread = None
    /\ stop_event = FALSE
    /\ bot = None
    /\ tstate = [t \in Threads |-> "unborn"]
    /\ tbot = [t \in Threads |-> None]
    /\ stop_requested = {}
    /\ nbots = 0
    /\ webhook = FALSE
    /\ token_set \in BOOLEAN
    /\ url_set = TRUE
    /\ notified_stop = {}
    /\ notified_poll = {}
    /\ caller = [c \in CallerIds |-> IdleCaller]
    /\ dialogs = <<>>
    /\ logs = <<>>
    /\ dialog_token_limit = 0
    /\ models = {}
    /\ bot_paused = FALSE
    /\ user_active = [u \in Users |-> TRUE]
    /\ sent = {}
    /\ backend_calls = {}
    /\ handler = [h \in Handlers |-> IdleHandler]
    /\ events = 0
    /\ webhook_secret \in {NoSecret} \cup Secrets
    /\ ensured = FALSE
    /\ delivered = {}
    /\ answered = {}
    /\ requests = 0
    /\ text = <<>>
    /\ chunks = <<>>
    /\ chunked = FALSE
    /\ error_recipients = {}
    /\ provider_messages = {}
    /\ replied = {}
    /\ backend_requests = <<>>
    /\ active_model_id = Unset
    /\ default_models = {}
    /\ selected = NotCalled
    /\ limit_exceeded = FALSE
    /\ outbox = <<>>
    /\ reply_sent = FALSE
    /\ openai_api_key = FALSE
    /\ client_calls = <<>>
    /\ http_posts = <<>>
    /\ response_data = EmptyResponse
    /\ extraction = NotExtracted
    /\ providers = [p \in ProviderIds |-> NewProvider]
    /\ clients = [p \in ProviderIds |-> NoEntry]
    /\ got = NotGot
    /\ now = 0
    /\ edits = 0
    /\ users = <<>>
    /\ uhandler = [h \in Handlers |-> IdleUpsert]
    /\ received = 0
    /\ last_username = ""
    /\ last_full_name = ""
    /\ effective = NotDetermined
    /\ title = PlaceholderTitle
    /\ first_message = <<>>
    /\ turns = 0
    /\ shown = NotShown
    /\ model_config = <<>>
    /\ model_name = <<>>
    /\ rules_map = <<>>
    /\ request = NoRequest
    /\ bot_messages = <<>>
    /\ assistant_ids = <<>>
    /\ loop_text = <<>>
    /\ loop_remaining = <<>>
    /\ loop_first = TRUE
    /\ loop_chunks = <<>>
    /\ loop_pc = "idle"

Headers == {NoSecret} \cup Secrets

NextWebhook ==
    \/ \E header \in Headers, body_ok \in BOOLEAN : process_webhook(header, body_ok)
    \/ \E entry \in Entries, header \in Headers, body_ok \in BOOLEAN :
          process_webhook_update(entry, header, body_ok)
    \/ \E secret \in {NoSecret} \cup Secrets : UpdateWebhookSecret(secret)

WebhookSpec == InitWebhook /\ [][NextWebhook]_vars

\* C11: an update that came with a secret header different from the
\* configured secret is never passed to the update handlers, whatever the
\* entry point.
MismatchedSecretNeverDelivered ==
    \A d \in delivered : d.secret # NoSecret => d.header = d.secret

\* ========================================================================
\* Part IV - the output segmenter (MessagingMixin._prepare_response_chunks)
\* ========================================================================
\* A text is a sequence of runs [c |-> character, n |-> repetitions >= 1]:
\* <<[c |-> "a", n |-> 4096], [c |-> " ", n |-> 1]>> is 4096 times "a" and
\* a space.  Texts of thousands of characters stay small this way.
Chars == {"a", " ", "."}
RunLengths == {1, 808, 4093, 4096}
Runs == [c : Chars, n : RunLengths]
Texts == UNION {[1..k -> Runs] : k \in 0..MaxRuns}

\* continuation = "..."
Marker == <<[c |-> ".", n |-> MarkerLen]>>

RECURSIVE RLen(_)
\* len(t)
RLen(t) == IF t = <<>> THEN 0 ELSE t[1].n + RLen(Tail(t))

RECURSIVE RTake(_, _)
\* t[:k]
RTake(t, k) ==
    IF k <= 0 \/ t = <<>> THEN <<>>
    ELSE IF t[1].n <= k THEN <<t[1]>> \o RTake(Tail(t), k - t[1].n)
         ELSE <<[c |-> t[1].c, n |-> k]>>

RECURSIVE RDrop(_, _)
\* t[k:]
RDrop(t, k) ==
    IF t = <<>> THEN <<>>
    ELSE IF k <= 0 THEN t
         ELSE IF t[1].n <= k THEN RDrop(Tail(t), k - t[1].n)
              ELSE <<[c |-> t[1].c, n |-> t[1].n - k]>> \o Tail(t)

\* t.rfind(" "): the index of the last space, -1 when there is none
RFindSpace(t) ==
    LET spaces == {i \in 1..Len(t) : t[i].c = " "}
    IN IF spaces = {} THEN -1
       ELSE LET last == CHOOSE i \in spaces : \A j \in spaces : j <= i
            IN RLen(SubSeq(t, 1, last)) - 1

RECURSIVE RStripRight(_)
\* t.rstrip()
RStripRight(t) ==
    IF t = <<>> THEN <<>>
    ELSE IF t[Len(t)].c = " " THEN RStripRight(SubSeq(t, 1, Len(t) - 1))
         ELSE t

RECURSIVE RStripLeft(_)
\* t.lstrip()
RStripLeft(t) ==
    IF t = <<>> THEN <<>>
    ELSE IF t[1].c = " " THEN RStripLeft(Tail(t))
         ELSE t

RECURSIVE Canon(_)
\* the runs of a text merged: two texts are the same string iff their
\* canonical forms are equal
Canon(t) ==
    IF Len(t) <= 1 THEN t
    ELSE IF t[1].c = t[2].c
         THEN Canon(<<[c |-> t[1].c, n |-> t[1].n + t[2].n]>> \o Tail(Tail(t)))
         ELSE <<t[1]>> \o Canon(Tail(t))

\* needs_split of one loop iteration
NeedsSplit(remaining, first_chunk) ==
    IF first_chunk THEN RLen(remaining) > TransportLimit
    ELSE RLen(remaining) > TransportLimit - MarkerLen

\* variant: no leading marker on the following chunks
ChunkPrefix_none(first_chunk) == <<>>

\* prefix of one loop iteration
ChunkPrefix(first_chunk) == IF first_chunk THEN <<>> ELSE Marker

\* suffix of one loop iteration
ChunkSuffix(needs_split) == IF needs_split THEN Marker ELSE <<>>

\* variant: the room taken by the markers is not subtracted
Available_whole(prefix, suffix) == TransportLimit

\* available = 4096 - len(prefix) - len(suffix)
Available(prefix, suffix) == TransportLimit - RLen(prefix) - RLen(suffix)

\* variant: a cut position of zero is kept
SplitStep_zero_cut(remaining, first_chunk) ==
    LET needs_split == NeedsSplit(remaining, first_chunk)
        prefix0 == ChunkPrefix(first_chunk)
        suffix0 == ChunkSuffix(needs_split)
        available0 == Available(prefix0, suffix0)
        prefix == IF available0 <= 0 THEN <<>> ELSE prefix0
        suffix == IF available0 <= 0 THEN <<>> ELSE suffix0
        available == IF available0 <= 0 THEN TransportLimit ELSE available0
        fits == RLen(remaining) <= available
        core0 == RTake(remaining, available)
        found == RFindSpace(core0)
        split_pos == IF found <= 0 THEN 0 ELSE found
        core == IF fits THEN remaining ELSE RStripRight(RTake(core0, split_pos))
        rest == IF fits THEN <<>> ELSE RStripLeft(RDrop(remaining, split_pos))
    IN [chunk |-> [prefix |-> prefix, core |-> core, suffix |-> suffix],
        rest |-> rest]

\* one iteration of the "while remaining" loop: the chunk it appends, kept
\* with its three parts (the string is prefix + core + suffix, ChunkText),
\* and the text that remains
SplitStep(remaining, first_chunk) ==
    LET needs_split == NeedsSplit(remaining, first_chunk)
        prefix0 == ChunkPrefix(first_chunk)
        suffix0 == ChunkSuffix(needs_split)
        available0 == Available(prefix0, suffix0)
        prefix == IF available0 <= 0 THEN <<>> ELSE prefix0
        suffix == IF available0 <= 0 THEN <<>> ELSE suffix0
        available == IF available0 <= 0 THEN TransportLimit ELSE available0
        fits == RLen(remaining) <= available
        core0 == RTake(remaining, available)
        found == RFindSpace(core0)
        split_pos == IF found <= 0 THEN available ELSE found
        core == IF fits THEN remaining ELSE RStripRight(RTake(core0, split_pos))
        rest == IF fits THEN <<>> ELSE RStripLeft(RDrop(remaining, split_pos))
    IN [chunk |-> [prefix |-> prefix, core |-> core, suffix |-> suffix],
        rest |-> rest]

RECURSIVE SplitLoop(_, _)
\* the "while remaining" loop run to its end
SplitLoop(remaining, first_chunk) ==
    LET step == SplitStep(remaining, first_chunk)
    IN IF step.rest = <<>> THEN <<step.chunk>>
       ELSE <<step.chunk>> \o SplitLoop(step.rest, FALSE)

\* _prepare_response_chunks(text) with escape=False
prepare_response_chunks(t) ==
    IF t = <<>> THEN <<>>
    ELSE IF RLen(t) <= TransportLimit
         THEN <<[prefix |-> <<>>, core |-> t, suffix |-> <<>>]>>
         ELSE SplitLoop(t, TRUE)

\* the string of a chunk
ChunkText(ch) == ch.prefix \o ch.core \o ch.suffix

\* chunks = self._prepare_response_chunks(combined_text)
PrepareResponseChunks ==
    /\ ~chunked
    /\ chunks' = prepare_response_chunks(text)
    /\ chunked' = TRUE
    /\ UNCHANGED text
    /\ UNCHANGED <<lifecycleVars, dialogVars, notChunkVars>>

InitChunk ==
    /\ polling_thread = None
    /\ stop_event = FALSE
    /\ bot = 1
    /\ tstate = [t \in Threads |-> "unborn"]
    /\ tbot = [t \in Threads |-> None]
    /\ stop_requested = {}
    /\ nbots = 1
    /\ webhook = TRUE
    /\ token_set = TRUE
    /\ url_set = TRUE
    /\ notified_stop = {}
    /\ notified_poll = {}
    /\ caller = [c \in CallerIds |-> IdleCaller]
    /\ dialogs = <<>>
    /\ logs = <<>>
    /\ dialog_token_limit = 0
    /\ models = {}
    /\ bot_paused = FALSE
    /\ user_active = [u \in Users |-> TRUE]
    /\ sent = {}
    /\ backend_calls = {}
    /\ handler = [h \in Handlers |-> IdleHandler]
    /\ events = 0
    /\ webhook_secret = NoSecret
    /\ ensured = FALSE
    /\ delivered = {}
    /\ answered = {}
    /\ requests = 0
    /\ text \in Texts
    /\ chunks = <<>>
    /\ chunked = FALSE
    /\ error_recipients = {}
    /\ provider_messages = {}
    /\ replied = {}
    /\ backend_requests = <<>>
    /\ active_model_id = Unset
    /\ default_models = {}
    /\ selected = NotCalled
    /\ limit_exceeded = FALSE
    /\ outbox = <<>>
    /\ reply_sent = FALSE
    /\ openai_api_key = FALSE
    /\ client_calls = <<>>
    /\ http_posts = <<>>
    /\ response_data = EmptyResponse
    /\ extraction = NotExtracted
    /\ providers = [p \in ProviderIds |-> NewProvider]
    /\ clients = [p \in ProviderIds |-> NoEntry]
    /\ got = NotGot
    /\ now = 0
    /\ edits = 0
    /\ users = <<>>
    /\ uhandler = [h \in Handlers |-> IdleUpsert]
    /\ received = 0
    /\ last_username = ""
    /\ last_full_name = ""
    /\ effective = NotDetermined
    /\ title = PlaceholderTitle
    /\ first_message = <<>>
    /\ turns = 0
    /\ shown = NotShown
    /\ model_config = <<>>
    /\ model_name = <<>>
    /\ rules_map = <<>>
    /\ request = NoRequest
    /\ bot_messages = <<>>
    /\ assistant_ids = <<>>
    /\ loop_text = <<>>
    /\ loop_remaining = <<>>
    /\ loop_first = TRUE
    /\ loop_chunks = <<>>
    /\ loop_pc = "idle"

NextChunk == PrepareResponseChunks

ChunkSpec == InitChunk /\ [][NextChunk]_vars

RECURSIVE ConcatCores(_)
\* the cores of the chunks, one after the other
ConcatCores(cs) == IF cs = <<>> THEN <<>> ELSE cs[1].core \o ConcatCores(Tail(cs))

\* t ends / starts with the continuation marker
EndsWithMarker(t) == Canon(RDrop(t, RLen(t) - MarkerLen)) = Marker
StartsWithMarker(t) == Canon(RTake(t, MarkerLen)) = Marker

\* C12: the core texts of the segments, the injected markers removed,
\* concatenated give the original text.
SegmentsRoundTrip ==
    chunked => Canon(ConcatCores(chunks)) = Canon(text)

\* C13: every segment, final or not, is at most TransportLimit long,
\* markers included.
SegmentsWithinLimit ==
    chunked => \A i \in 1..Len(chunks) : RLen(ChunkText(chunks[i])) <= TransportLimit

SegmentsWithinLimit_witness ==
    /\ chunked
    /\ Len(chunks) >= 3
    /\ RLen(ChunkText(chunks[1])) = TransportLimit
    /\ RLen(ChunkText(chunks[2])) = TransportLimit
    /\ chunks[Len(chunks)].suffix = <<>>

\* the markers of a reply split into several segments
MarkersOnSplit ==
    Len(chunks) > 1 =>
        \A i \in 1..Len(chunks) :
            /\ i < Len(chunks) => EndsWithMarker(ChunkText(chunks[i]))
            /\ i > 1 => StartsWithMarker(ChunkText(chunks[i]))

\* C14 as stated: several segments carry the markers; every reply that
\* fits in one segment comes back as that one segment, unchanged.
SegmentMarkers ==
    chunked =>
        /\ MarkersOnSplit
        /\ RLen(text) <= TransportLimit =>
              (Len(chunks) = 1 /\ ChunkText(chunks[1]) = text)

\* C14 amended: several segments carry the markers; a non-empty reply that
\* fits in one segment comes back as that one segment, unchanged; an empty
\* reply gives no segment.
SegmentMarkersNonEmpty ==
    chunked =>
        /\ MarkersOnSplit
        /\ (text # <<>> /\ RLen(text) <= TransportLimit) =>
              (Len(chunks) = 1 /\ ChunkText(chunks[1]) = text)
        /\ text = <<>> => chunks = <<>>

SegmentMarkersNonEmpty_witness ==
    /\ chunked
    /\ RLen(text) = 9000
    /\ Len(chunks) = 3
    /\ EndsWithMarker(ChunkText(chunks[1]))
    /\ EndsWithMarker(ChunkText(chunks[2]))
    /\ StartsWithMarker(ChunkText(chunks[3]))

\* ========================================================================
\* Properties of a turn
\* ========================================================================
\* the chat a row's message came from
ChatOf(l) == dialogs[logs[l].dialog].user

\* C16: a failed turn brings the chat it came from the generic error
\* message only; the text with the exception goes only to configured
\* recipients, never to that chat.
ExceptionTextOnlyToOperators ==
    /\ \A m \in sent :
          m.kind = "exception" =>
              (m.to \in error_recipients /\ m.to # ChatOf(m.log))
    /\ \A m \in sent :
          (m.log # 0 /\ m.to = ChatOf(m.log)) => m.kind \in {"error", "limit_notice"}
    /\ \A h \in Handlers :
          (/\ handler[h].pc = "idle"
           /\ handler[h].log # 0
           /\ logs[handler[h].log].resp = "none") =>
              [to |-> handler[h].user, kind |-> "error", log |-> handler[h].log] \in sent

\* a user named as recipient had a backend failure, and so had a user who
\* is not: the first got the generic message only, the operators the rest
ExceptionTextOnlyToOperators_witness ==
    \E l \in backend_calls :
        /\ ChatOf(l) \in error_recipients
        /\ [to |-> ChatOf(l), kind |-> "error", log |-> l] \in sent
        /\ \E m \in sent : m.kind = "exception" /\ m.log = l /\ m.to # ChatOf(l)

\* C17: every row is either completed by a backend response (assistant
\* text, tokens and responded_at together) or holds the request alone.
NoHalfWrittenRow ==
    \A l \in LogIds :
        \/ logs[l].resp = "reply" /\ logs[l].responded
        \/ logs[l].resp = "none" /\ logs[l].tokens = 0 /\ ~logs[l].responded

\* C19: the message list of a backend request is the system message, then
\* the rows the dialog held, every one of them, in ascending message_index
\* order, each as its user message followed by its assistant message when
\* it has one.
ContextIsWholeHistory ==
    \A p \in provider_messages :
        LET ms == p.messages
            PosUser(l) == {i \in 2..Len(ms) : ms[i] = [role |-> "user", log |-> l]}
            PosAsst(l) == {i \in 2..Len(ms) : ms[i] = [role |-> "assistant", log |-> l]}
        IN /\ Len(ms) = 1 + Cardinality(p.rows) + Cardinality(p.with_reply)
           /\ ms[1] = [role |-> "system", log |-> 0]
           /\ \A i \in 2..Len(ms) : ms[i].role # "system" /\ ms[i].log \in p.rows
           /\ \A l \in p.rows :
                 /\ Cardinality(PosUser(l)) = 1
                 /\ IF l \in p.with_reply
                    THEN \E i \in PosUser(l) : PosAsst(l) = {i + 1}
                    ELSE PosAsst(l) = {}
           /\ \A i, j \in 2..Len(ms) :
                 i < j => logs[ms[i].log].idx <= logs[ms[j].log].idx

\* the first message of a fresh dialog went out as [system, user], its row
\* has message_index 1; and a dialog with answered turns went out whole
ContextIsWholeHistory_witness ==
    /\ \E p \in provider_messages :
          /\ p.messages = <<[role |-> "system", log |-> 0], [role |-> "user", log |-> p.log]>>
          /\ logs[p.log].idx = 1
    /\ \E p \in provider_messages :
          /\ Cardinality(p.with_reply) >= 2
          /\ Len(p.messages) >= 6

\* C20: once the backend has returned a reply for a turn, the row of the
\* turn holds the reply and its token counts.
RepliedRowsHoldReply ==
    \A l \in replied : logs[l].resp = "reply" /\ logs[l].responded

\* ------------------------------------------------------------------------
\* Commands and the history callback: _handle_start, _handle_help, the
\* custom commands, _handle_unknown_command, _handle_dialog_history
\* ------------------------------------------------------------------------
\* the pause test, then the fixed answer of the command; no Dialog or
\* MessageLog row is read or written
CommandBegin(h, u) ==
    /\ handler[h].pc = "idle"
    /\ events < MaxEvents
    /\ events' = events + 1
    /\ IF bot_paused THEN Send(u, "pause", 0) ELSE Send(u, "command_reply", 0)
    /\ handler' = [handler EXCEPT ![h] = [IdleHandler EXCEPT !.op = "command", !.user = u]]
    /\ UNCHANGED <<dialogs, logs, dialog_token_limit, models, bot_paused,
                   user_active, backend_calls>>
    /\ UNCHANGED <<lifecycleVars, auxVars>>

\* a stored dialog of user 1, every user admitted, the bot paused or not
InitPause ==
    /\ polling_thread = None
    /\ stop_event = FALSE
    /\ bot = 1
    /\ tstate = [t \in Threads |-> "unborn"]
    /\ tbot = [t \in Threads |-> None]
    /\ stop_requested = {}
    /\ nbots = 1
    /\ webhook = TRUE
    /\ token_set = TRUE
    /\ url_set = TRUE
    /\ notified_stop = {}
    /\ notified_poll = {}
    /\ caller = [c \in CallerIds |-> IdleCaller]
    /\ \E k \in {MaxStoredTurns}, m \in {2} :
         /\ logs = StoredLogs(k, m)
         /\ dialogs = IF k = 0 THEN <<>>
                      ELSE <<NewDialog(1)>>
    /\ dialog_token_limit \in {0, MaxLimit}
    /\ models = ModelIds
    /\ bot_paused \in BOOLEAN
    /\ user_active = [u \in Users |-> TRUE]
    /\ sent = {}
    /\ backend_calls = {}
    /\ handler = [h \in Handlers |-> IdleHandler]
    /\ events = 0
    /\ InitAux

NextPause ==
    \/ \E h \in Handlers : HandlerStep(h)
    \/ \E h \in Handlers, u \in Users : CommandBegin(h, u)
    \/ TogglePause

PauseSpec == InitPause /\ [][NextPause]_vars

\* C38: a step that takes an inbound text message, command or callback
\* while the bot is paused ends the handling at once: the sender gets the
\* pause notice and nothing else, no Dialog or MessageLog row is created or
\* changed and no backend request is issued.
PausedUpdateOnlyNotified ==
    [][(bot_paused /\ bot_paused' /\ events' = events + 1) =>
          /\ dialogs' = dialogs
          /\ logs' = logs
          /\ backend_calls' = backend_calls
          /\ backend_requests' = backend_requests
          /\ \E h \in Handlers, u \in Users :
                /\ handler[h].pc = "idle"
                /\ handler'[h].pc = "idle" /\ handler'[h].user = u
                /\ \A g \in Handlers \ {h} : handler'[g] = handler[g]
                /\ sent' = sent \cup {[to |-> u, kind |-> "pause", log |-> 0]}]_vars

\* while the bot was paused user 1 sent a text message and pressed the
\* new-dialog button: both got the pause notice and the stored dialog is
\* still the only one, active, with the rows it had
PausedUpdateOnlyNotified_witness ==
    /\ bot_paused /\ events = 2
    /\ handler[1].op = "message" /\ handler[2].op = "new"
    /\ handler[1].user = 1 /\ handler[2].user = 1
    /\ sent = {[to |-> 1, kind |-> "pause", log |-> 0]}
    /\ Len(dialogs) = 1 /\ dialogs[1].is_active
    /\ Len(logs) = MaxStoredTurns

\* the id carried by a switch callback of user u names no dialog of u
BadSwitchTarget(u, id) ==
    id = 0 \/ id \notin DialogIds \/ dialogs[id].user # u

TurnsHandled(d) ==
    {l \in LogsOf(d) : /\ ~logs[l].responded
                       /\ \A h \in Handlers :
                             handler[h].log = l => handler[h].pc # "m_limit"}

\* C35: while the cumulative tokens of a dialog are at or above its
\* effective limit, every text message recorded in that dialog is answered
\* with the limit notice and nothing else, causes no backend request and
\* adds no tokens; a dialog the user starts afterwards is not concerned.
LimitIsSteadyState ==
    \A d \in DialogIds :
        BudgetUsedUp(d) =>
            \A l \in TurnsHandled(d) :
                /\ l \notin backend_calls
                /\ logs[l].tokens = 0
                /\ logs[l].resp = "limit_notice"
                /\ \A m \in sent : m.log = l => m.kind = "limit_notice"
                /\ \E m \in sent : m.log = l

\* dialog 1 has used up its budget: two messages in a row got the limit
\* notice, and the usage of the dialog is what it was
LimitIsSteadyState_witness ==
    /\ Len(dialogs) >= 1 /\ BudgetUsedUp(1)
    /\ Cardinality(TurnsHandled(1)) = 2
    /\ \A h \in Handlers : handler[h].pc = "idle"
    /\ calculate_dialog_usage(1) = MaxStoredTurns * TurnTokens

\* C29: the new-dialog action deactivates the dialog that was active (it is
\* inactive and has its end time set) and adds a dialog, so that right after
\* it the user's only active dialog is the new one, which has no turns.
NewDialogLeavesOneActive ==
    [][\A h \in Handlers :
          (handler[h].pc = "n_commit" /\ handler'[h].pc = "idle") =>
              LET u == handler[h].user
                  new == Len(dialogs')
              IN /\ {d \in 1..Len(dialogs') :
                        dialogs'[d].user = u /\ dialogs'[d].is_active} = {new}
                 /\ \A l \in 1..Len(logs') : logs'[l].dialog # new
                 /\ handler[h].dialog # None =>
                       /\ ~dialogs'[handler[h].dialog].is_active
                       /\ dialogs'[handler[h].dialog].ended]_vars

\* the backend requests issued for row l
RequestsFor(l) == SelectSeq(backend_requests, LAMBDA r : r = l)

\* C22: every inbound text message (one MessageLog row) has at most one
\* backend request, also after its turn has failed: a failed turn is not
\* issued again, the next request belongs to the next message.
OneRequestPerMessage ==
    /\ \A l \in LogIds : Len(RequestsFor(l)) <= 1
    /\ \A i \in 1..Len(backend_requests) : backend_requests[i] \in backend_calls

\* a turn failed after its request (the user got the error message), then
\* the same user sent another message, which got a request of its own
OneRequestPerMessage_witness ==
    \E l1, l2 \in LogIds :
        /\ l1 # l2
        /\ logs[l1].dialog = logs[l2].dialog
        /\ backend_requests = <<l1, l2>>
        /\ [to |-> dialogs[logs[l1].dialog].user, kind |-> "error", log |-> l1] \in sent

\* ========================================================================
\* Part V - model selection (DialogManagementMixin._get_model_config)
\* ========================================================================
ConfigIds == 1..MaxConfigs
\* values of the active_model_id setting; an id names a stored config or not
ActiveValues == {Unset, Unparsable} \cup ConfigIds

\* ModelConfig.query.filter_by(id=model_id).first() for the setting: the
\* config the setting names, None ({}) when it is not an integer or names
\* no stored config
NamedModel == IF active_model_id \in models THEN {active_model_id} ELSE {}

\* the configs _get_model_config can return, or Raised when it raises.
\* A query without ORDER BY has no defined first row: any row it matches
\* can be first().  A set setting skips the is_default query.
get_model_config ==
    LET model == IF active_model_id # Unset THEN NamedModel
                 ELSE default_models \cap models
        fallback == IF model = {} THEN models ELSE model
    IN IF fallback = {} THEN {Raised} ELSE fallback

\* model, ... = self._get_model_config(mode)
GetModelConfig ==
    /\ \E result \in get_model_config : selected' = result
    /\ selected' # selected
    /\ UNCHANGED <<active_model_id, default_models>>
    /\ UNCHANGED <<lifecycleVars, dialogVars, notModelVars>>

\* manage_settings: the operator stores another active_model_id
UpdateActiveModel(value) ==
    /\ value # Unset
    /\ value # active_model_id
    /\ active_model_id' = value
    /\ UNCHANGED <<default_models, selected>>
    /\ UNCHANGED <<lifecycleVars, dialogVars, notModelVars>>

InitModel ==
    /\ polling_thread = None
    /\ stop_event = FALSE
    /\ bot = 1
    /\ tstate = [t \in Threads |-> "unborn"]
    /\ tbot = [t \in Threads |-> None]
    /\ stop_requested = {}
    /\ nbots = 1
    /\ webhook = TRUE
    /\ token_set = TRUE
    /\ url_set = TRUE
    /\ notified_stop = {}
    /\ notified_poll = {}
    /\ caller = [c \in CallerIds |-> IdleCaller]
    /\ dialogs = <<>>
    /\ logs = <<>>
    /\ dialog_token_limit = 0
    /\ models \in SUBSET ConfigIds
    /\ bot_paused = FALSE
    /\ user_active = [u \in Users |-> TRUE]
    /\ sent = {}
    /\ backend_calls = {}
    /\ handler = [h \in Handlers |-> IdleHandler]
    /\ events = 0
    /\ webhook_secret = NoSecret
    /\ ensured = FALSE
    /\ delivered = {}
    /\ answered = {}
    /\ requests = 0
    /\ text = <<>>
    /\ chunks = <<>>
    /\ chunked = FALSE
    /\ error_recipients = {}
    /\ provider_messages = {}
    /\ replied = {}
    /\ backend_requests = <<>>
    /\ active_model_id \in ActiveValues
    /\ default_models \in SUBSET models
    /\ selected = NotCalled
    /\ limit_exceeded = FALSE
    /\ outbox = <<>>
    /\ reply_sent = FALSE
    /\ openai_api_key = FALSE
    /\ client_calls = <<>>
    /\ http_posts = <<>>
    /\ response_data = EmptyResponse
    /\ extraction = NotExtracted
    /\ providers = [p \in ProviderIds |-> NewProvider]
    /\ clients = [p \in ProviderIds |-> NoEntry]
    /\ got = NotGot
    /\ now = 0
    /\ edits = 0
    /\ users = <<>>
    /\ uhandler = [h \in Handlers |-> IdleUpsert]
    /\ received = 0
    /\ last_username = ""
    /\ last_full_name = ""
    /\ effective = NotDetermined
    /\ title = PlaceholderTitle
    /\ first_message = <<>>
    /\ turns = 0
    /\ shown = NotShown
    /\ model_config = <<>>
    /\ model_name = <<>>
    /\ rules_map = <<>>
    /\ request = NoRequest
    /\ bot_messages = <<>>
    /\ assistant_ids = <<>>
    /\ loop_text = <<>>
    /\ loop_remaining = <<>>
    /\ loop_first = TRUE
    /\ loop_chunks = <<>>
    /\ loop_pc = "idle"

NextModel ==
    \/ GetModelConfig
    \/ \E value \in ActiveValues : UpdateActiveModel(value)

ModelSpec == InitModel /\ [][NextModel]_vars

\* C18: whatever the setting and the stored configs, every selection
\* follows the order: the config the setting names, else a config with
\* is_default, else any config, else an error.
SelectionFollowsOrder ==
    [][selected' # selected =>
          LET defaults == default_models \cap models
              expected == IF NamedModel # {} THEN NamedModel
                          ELSE IF defaults # {} THEN defaults
                               ELSE IF models # {} THEN models
                                    ELSE {Raised}
          IN selected' \in expected]_vars

\* ========================================================================
\* Part VI - sending the reply of an answered turn
\*           (MessagingMixin._handle_message after _query_llm returned)
\* ========================================================================
\* the messages of the loop over the chunks: the keyboard goes on the last
\* chunk unless the turn brought the dialog to its limit
SegmentMessages ==
    [i \in 1..Len(chunks) |->
        [kind |-> "segment", controls |-> (i = Len(chunks) /\ ~limit_exceeded)]]

\* the loop over the chunks, then the limit warning, sent with
\* reply_markup=None, when limit_exceeded
SendReply ==
    /\ chunked
    /\ ~reply_sent
    /\ bot # None
    /\ outbox' = SegmentMessages \o
                    (IF limit_exceeded
                     THEN <<[kind |-> "limit_notice", controls |-> FALSE]>>
                     ELSE <<>>)
    /\ reply_sent' = TRUE
    /\ UNCHANGED limit_exceeded
    /\ UNCHANGED <<lifecycleVars, dialogVars, notReplyVars>>

\* text is combined_text: the reply and the usage summary, which is never
\* empty
InitReply ==
    /\ polling_thread = None
    /\ stop_event = FALSE
    /\ bot = 1
    /\ tstate = [t \in Threads |-> "unborn"]
    /\ tbot = [t \in Threads |-> None]
    /\ stop_requested = {}
    /\ nbots = 1
    /\ webhook = TRUE
    /\ token_set = TRUE
    /\ url_set = TRUE
    /\ notified_stop = {}
    /\ notified_poll = {}
    /\ caller = [c \in CallerIds |-> IdleCaller]
    /\ dialogs = <<>>
    /\ logs = <<>>
    /\ dialog_token_limit = 0
    /\ models = {}
    /\ bot_paused = FALSE
    /\ user_active = [u \in Users |-> TRUE]
    /\ sent = {}
    /\ backend_calls = {}
    /\ handler = [h \in Handlers |-> IdleHandler]
    /\ events = 0
    /\ webhook_secret = NoSecret
    /\ ensured = FALSE
    /\ delivered = {}
    /\ answered = {}
    /\ requests = 0
    /\ text \in Texts \ {<<>>}
    /\ chunks = <<>>
    /\ chunked = FALSE
    /\ error_recipients = {}
    /\ provider_messages = {}
    /\ replied = {}
    /\ backend_requests = <<>>
    /\ active_model_id = Unset
    /\ default_models = {}
    /\ selected = NotCalled
    /\ limit_exceeded \in BOOLEAN
    /\ outbox = <<>>
    /\ reply_sent = FALSE
    /\ openai_api_key = FALSE
    /\ client_calls = <<>>
    /\ http_posts = <<>>
    /\ response_data = EmptyResponse
    /\ extraction = NotExtracted
    /\ providers = [p \in ProviderIds |-> NewProvider]
    /\ clients = [p \in ProviderIds |-> NoEntry]
    /\ got = NotGot
    /\ now = 0
    /\ edits = 0
    /\ users = <<>>
    /\ uhandler = [h \in Handlers |-> IdleUpsert]
    /\ received = 0
    /\ last_username = ""
    /\ last_full_name = ""
    /\ effective = NotDetermined
    /\ title = PlaceholderTitle
    /\ first_message = <<>>
    /\ turns = 0
    /\ shown = NotShown
    /\ model_config = <<>>
    /\ model_name = <<>>
    /\ rules_map = <<>>
    /\ request = NoRequest
    /\ bot_messages = <<>>
    /\ assistant_ids = <<>>
    /\ loop_text = <<>>
    /\ loop_remaining = <<>>
    /\ loop_first = TRUE
    /\ loop_chunks = <<>>
    /\ loop_pc = "idle"

NextReply ==
    \/ PrepareResponseChunks
    \/ SendReply

ReplySpec == InitReply /\ [][NextReply]_vars

Endpoints == {"chat", "responses"}

\* requests.post raised before any status arrived (timeout, connection)
NoAnswer == 0

\* a model configuration: its "endpoint" key, its model name (absent, with
\* one of the responses prefixes, or any other name), and whether the
\* backend serves the model on the responses endpoint only
ModelConfigs ==
    [endpoint : {"none"} \cup Endpoints,
     model : {"none", "prefixed", "plain"},
     responses_only : BOOLEAN]

\* variant: the "endpoint" key is not looked at
pick_endpoint_for_model_inferred(cfg) ==
    IF cfg.model = "prefixed" THEN "responses" ELSE "chat"

\* _pick_endpoint_for_model(model_config)
pick_endpoint_for_model(cfg) ==
    IF cfg.endpoint \in Endpoints THEN cfg.endpoint
    ELSE IF cfg.model = "prefixed" THEN "responses"
         ELSE "chat"

\* what the backend may answer to a POST
BackendStatuses(cfg, endpoint) ==
    IF cfg.responses_only /\ endpoint = "chat"
    THEN {400}
    ELSE {NoAnswer, 200, 400, 500}

ClientBusy ==
    /\ client_calls # <<>>
    /\ client_calls[Len(client_calls)].result = "pending"

\* send_chat_request up to the POST: the key test, the endpoint choice and
\* the payload, which raises when the configuration names no model
SendChatRequest(cfg) ==
    /\ ~ClientBusy
    /\ Len(client_calls) < MaxClientCalls
    /\ client_calls' = Append(client_calls,
          [cfg |-> cfg,
           endpoint |-> IF openai_api_key THEN pick_endpoint_for_model(cfg)
                        ELSE "none",
           result |-> IF openai_api_key /\ cfg.model # "none"
                      THEN "pending" ELSE "raised"])
    /\ UNCHANGED <<openai_api_key, http_posts>>
    /\ UNCHANGED <<lifecycleVars, dialogVars, notClientVars>>

\* the result of _perform_request for the status answered
PerformResult(status) ==
    IF status = 200 THEN "returned" ELSE "raised"

\* _perform_request: one POST to the endpoint chosen; raise_for_status
\* turns every status but 2xx into RuntimeError
PerformRequest(status) ==
    /\ ClientBusy
    /\ LET n == Len(client_calls)
           call == client_calls[n]
       IN /\ status \in BackendStatuses(call.cfg, call.endpoint)
          /\ http_posts' = Append(http_posts,
                [call |-> n, endpoint |-> call.endpoint, status |-> status])
          /\ client_calls' = [client_calls EXCEPT ![n].result = PerformResult(status)]
    /\ UNCHANGED openai_api_key
    /\ UNCHANGED <<lifecycleVars, dialogVars, notClientVars>>

InitClient ==
    /\ polling_thread = None
    /\ stop_event = FALSE
    /\ bot = None
    /\ tstate = [t \in Threads |-> "unborn"]
    /\ tbot = [t \in Threads |-> None]
    /\ stop_requested = {}
    /\ nbots = 0
    /\ webhook = FALSE
    /\ token_set = FALSE
    /\ url_set = FALSE
    /\ notified_stop = {}
    /\ notified_poll = {}
    /\ caller = [c \in CallerIds |-> IdleCaller]
    /\ dialogs = <<>>
    /\ logs = <<>>
    /\ dialog_token_limit = 0
    /\ models = {}
    /\ bot_paused = FALSE
    /\ user_active = [u \in Users |-> TRUE]
    /\ sent = {}
    /\ backend_calls = {}
    /\ handler = [h \in Handlers |-> IdleHandler]
    /\ events = 0
    /\ webhook_secret = NoSecret
    /\ ensured = FALSE
    /\ delivered = {}
    /\ answered = {}
    /\ requests = 0
    /\ text = <<>>
    /\ chunks = <<>>
    /\ chunked = FALSE
    /\ error_recipients = {}
    /\ provider_messages = {}
    /\ replied = {}
    /\ backend_requests = <<>>
    /\ active_model_id = Unset
    /\ default_models = {}
    /\ selected = NotCalled
    /\ limit_exceeded = FALSE
    /\ outbox = <<>>
    /\ reply_sent = FALSE
    /\ openai_api_key \in BOOLEAN
    /\ client_calls = <<>>
    /\ http_posts = <<>>
    /\ response_data = EmptyResponse
    /\ extraction = NotExtracted
    /\ providers = [p \in ProviderIds |-> NewProvider]
    /\ clients = [p \in ProviderIds |-> NoEntry]
    /\ got = NotGot
    /\ now = 0
    /\ edits = 0
    /\ users = <<>>
    /\ uhandler = [h \in Handlers |-> IdleUpsert]
    /\ received = 0
    /\ last_username = ""
    /\ last_full_name = ""
    /\ effective = NotDetermined
    /\ title = PlaceholderTitle
    /\ first_message = <<>>
    /\ turns = 0
    /\ shown = NotShown
    /\ model_config = <<>>
    /\ model_name = <<>>
    /\ rules_map = <<>>
    /\ request = NoRequest
    /\ bot_messages = <<>>
    /\ assistant_ids = <<>>
    /\ loop_text = <<>>
    /\ loop_remaining = <<>>
    /\ loop_first = TRUE
    /\ loop_chunks = <<>>
    /\ loop_pc = "idle"

NextClient ==
    \/ \E cfg \in ModelConfigs : SendChatRequest(cfg)
    \/ \E status \in {NoAnswer, 200, 400, 500} : PerformRequest(status)

ClientSpec == InitClient /\ [][NextClient]_vars

\* requests.post is given timeout=60: a POST that was issued ends
FairClientSpec ==
    ClientSpec /\ WF_vars(\E status \in {NoAnswer, 200, 400, 500} : PerformRequest(status))

\* the POSTs of call n, in order
PostsOf(n) == SelectSeq(http_posts, LAMBDA p : p.call = n)

\* the backend answered 400 to call n, which sent a responses-only model
\* to the chat endpoint
WrongEndpointRefused(n) ==
    /\ Len(client_calls) >= n
    /\ client_calls[n].cfg.responses_only
    /\ PostsOf(n) # <<>>
    /\ PostsOf(n)[1].endpoint = "chat"
    /\ PostsOf(n)[1].status = 400

\* call n made a second POST, to the responses endpoint, and returned its
\* successful response
RetriedAndReturned(n) ==
    /\ Len(client_calls) >= n
    /\ client_calls[n].result = "returned"
    /\ Len(PostsOf(n)) = 2
    /\ PostsOf(n)[2].endpoint = "responses"
    /\ PostsOf(n)[2].status = 200

\* C21: a call whose responses-only model was refused with 400 by the chat
\* endpoint goes on to exactly one more POST, to the responses endpoint, and
\* returns its successful response.
WrongEndpointRetriedOnce ==
    \A n \in 1..MaxClientCalls :
        WrongEndpointRefused(n) ~> RetriedAndReturned(n)

\* the calls in which _pick_endpoint_for_model ran
Picked == {i \in 1..Len(client_calls) : client_calls[i].endpoint # "none"}

Payloads == {"a", " b ", " "}

\* str.strip()
Strip(p) == IF p = " b " THEN "b" ELSE IF p = " " THEN "" ELSE p

\* a content block: the key that holds its payload ("none": a block with
\* neither "text" nor "value", or with an empty one)
Blocks ==
    {[field |-> "none", payload |-> ""]} \cup
    [field : {"text", "value"}, payload : Payloads]

\* the content blocks of the items of data["output"], in document order
Outputs == UNION {[1..n -> Blocks] : n \in 0..MaxBlocks}

\* data["usage"]: the key is missing, it is null, or it is an object
Usages ==
    {NoUsage("missing"), NoUsage("null")} \cup
    [kind : {"object"},
     total_tokens : {Absent, Null, 0, 5},
     prompt_tokens : {Absent, 1},
     completion_tokens : {Absent, 2},
     input_tokens : {Absent, 1},
     output_tokens : {Absent, 2}]

Responses ==
    [object : {"response", "chat.completion"},
     choices : {"missing", "no_content", "content"},
     output_text : BOOLEAN,
     output : Outputs,
     content : BOOLEAN,
     usage : Usages]

\* collected_parts of _extract_text_from_response
CollectedParts(data) ==
    (IF data.output_text THEN <<"o">> ELSE <<>>)
    \o [i \in 1..Len(SelectSeq(data.output, LAMBDA b : b.field # "none")) |->
           SelectSeq(data.output, LAMBDA b : b.field # "none")[i].payload]
    \o (IF data.content THEN <<"t">> ELSE <<>>)

\* "\n".join(part.strip() for part in collected_parts if part.strip())
JoinStripped(parts) ==
    SelectSeq([i \in 1..Len(parts) |-> Strip(parts[i])], LAMBDA q : q # "")

\* the message OpenAIService.extract_message computes, or how it raises
\* before the usage is read
ServiceMessage(data) ==
    IF data.object = "response"
    THEN IF CollectedParts(data) = <<>>
         THEN [outcome |-> "no_text", message |-> <<>>]
         ELSE [outcome |-> "ok", message |-> JoinStripped(CollectedParts(data))]
    ELSE IF data.choices = "missing"
         THEN [outcome |-> "no_choices", message |-> <<>>]
         ELSE IF data.choices = "no_content"
              THEN [outcome |-> "no_text", message |-> <<>>]
              ELSE [outcome |-> "ok", message |-> <<"c">>]

\* lines 79-85: total_tokens, else completion_tokens, else output_tokens,
\* else 0; None.get raises when "usage" is null
ServiceTokens(usage) ==
    IF usage.kind = "null" THEN [outcome |-> "usage_error", tokens_used |-> NotComputed]
    ELSE IF usage.kind = "missing" THEN [outcome |-> "ok", tokens_used |-> 0]
    ELSE [outcome |-> "ok",
          tokens_used |->
              IF usage.total_tokens \notin {Absent, Null} THEN usage.total_tokens
              ELSE IF usage.completion_tokens # Absent THEN usage.completion_tokens
              ELSE IF usage.output_tokens # Absent THEN usage.output_tokens
              ELSE 0]

\* OpenAIProviderClient, lines 59-60: usage.get("total_tokens",
\* usage.get("completion_tokens", 0)); int(None) raises
ProviderTokens(usage) ==
    IF usage.kind = "null" THEN [outcome |-> "usage_error", tokens_used |-> NotComputed]
    ELSE IF usage.kind = "missing" THEN [outcome |-> "ok", tokens_used |-> 0]
    ELSE IF usage.total_tokens = Null
         THEN [outcome |-> "usage_error", tokens_used |-> NotComputed]
         ELSE [outcome |-> "ok",
               tokens_used |->
                   IF usage.total_tokens # Absent THEN usage.total_tokens
                   ELSE IF usage.completion_tokens # Absent
                        THEN usage.completion_tokens
                        ELSE 0]

\* OpenAIService.extract_message: the message, the usage, then
\* register_response(message, tokens_used), which raises (it takes
\* prompt_tokens and completion_tokens)
ServiceExtractMessage ==
    /\ extraction = NotExtracted
    /\ LET m == ServiceMessage(response_data)
           t == ServiceTokens(response_data.usage)
       IN extraction' =
             IF m.outcome # "ok"
             THEN [by |-> "service", outcome |-> m.outcome, message |-> <<>>,
                   tokens_used |-> NotComputed]
             ELSE [by |-> "service",
                   outcome |-> IF t.outcome = "ok" THEN "register_error"
                               ELSE t.outcome,
                   message |-> m.message, tokens_used |-> t.tokens_used]
    /\ UNCHANGED response_data
    /\ UNCHANGED <<lifecycleVars, dialogVars, notExtractVars>>

\* OpenAIProviderClient.extract_message: _strip_think_tags of the content
\* ("" when it is None), the usage, then the same register_response call
ProviderExtractMessage ==
    /\ extraction = NotExtracted
    /\ LET t == ProviderTokens(response_data.usage)
       IN extraction' =
             IF response_data.choices = "missing"
             THEN [by |-> "provider", outcome |-> "no_choices", message |-> <<>>,
                   tokens_used |-> NotComputed]
             ELSE [by |-> "provider",
                   outcome |-> IF t.outcome = "ok" THEN "register_error"
                               ELSE t.outcome,
                   message |-> IF response_data.choices = "content"
                               THEN <<"c">> ELSE <<>>,
                   tokens_used |-> t.tokens_used]
    /\ UNCHANGED response_data
    /\ UNCHANGED <<lifecycleVars, dialogVars, notExtractVars>>

InitExtract ==
    /\ polling_thread = None
    /\ stop_event = FALSE
    /\ bot = None
    /\ tstate = [t \in Threads |-> "unborn"]
    /\ tbot = [t \in Threads |-> None]
    /\ stop_requested = {}
    /\ nbots = 0
    /\ webhook = FALSE
    /\ token_set = FALSE
    /\ url_set = FALSE
    /\ notified_stop = {}
    /\ notified_poll = {}
    /\ caller = [c \in CallerIds |-> IdleCaller]
    /\ dialogs = <<>>
    /\ logs = <<>>
    /\ dialog_token_limit = 0
    /\ models = {}
    /\ bot_paused = FALSE
    /\ user_active = [u \in Users |-> TRUE]
    /\ sent = {}
    /\ backend_calls = {}
    /\ handler = [h \in Handlers |-> IdleHandler]
    /\ events = 0
    /\ webhook_secret = NoSecret
    /\ ensured = FALSE
    /\ delivered = {}
    /\ answered = {}
    /\ requests = 0
    /\ text = <<>>
    /\ chunks = <<>>
    /\ chunked = FALSE
    /\ error_recipients = {}
    /\ provider_messages = {}
    /\ replied = {}
    /\ backend_requests = <<>>
    /\ active_model_id = Unset
    /\ default_models = {}
    /\ selected = NotCalled
    /\ limit_exceeded = FALSE
    /\ outbox = <<>>
    /\ reply_sent = FALSE
    /\ openai_api_key = FALSE
    /\ client_calls = <<>>
    /\ http_posts = <<>>
    /\ response_data \in Responses
    /\ extraction = NotExtracted
    /\ providers = [p \in ProviderIds |-> NewProvider]
    /\ clients = [p \in ProviderIds |-> NoEntry]
    /\ got = NotGot
    /\ now = 0
    /\ edits = 0
    /\ users = <<>>
    /\ uhandler = [h \in Handlers |-> IdleUpsert]
    /\ received = 0
    /\ last_username = ""
    /\ last_full_name = ""
    /\ effective = NotDetermined
    /\ title = PlaceholderTitle
    /\ first_message = <<>>
    /\ turns = 0
    /\ shown = NotShown
    /\ model_config = <<>>
    /\ model_name = <<>>
    /\ rules_map = <<>>
    /\ request = NoRequest
    /\ bot_messages = <<>>
    /\ assistant_ids = <<>>
    /\ loop_text = <<>>
    /\ loop_remaining = <<>>
    /\ loop_first = TRUE
    /\ loop_chunks = <<>>
    /\ loop_pc = "idle"

NextExtract ==
    \/ ServiceExtractMessage
    \/ ProviderExtractMessage

ExtractSpec == InitExtract /\ [][NextExtract]_vars

\* C23: the token usage extract_message works out is the explicit total when
\* the response has one, otherwise the sum of the prompt+completion (or
\* input+output) sub-fields, otherwise 0, and a missing or null usage does
\* not make it raise.
UsageNormalised ==
    LET u == response_data.usage
        Given(f) == IF f \in {Absent, Null} THEN 0 ELSE f
        expected ==
            IF u.kind \in {"missing", "null"} THEN 0
            ELSE IF u.total_tokens \notin {Absent, Null} THEN u.total_tokens
            ELSE IF u.prompt_tokens # Absent \/ u.completion_tokens # Absent
                 THEN Given(u.prompt_tokens) + Given(u.completion_tokens)
                 ELSE Given(u.input_tokens) + Given(u.output_tokens)
    IN extraction.outcome \in {"usage_error", "register_error"} =>
          /\ extraction.outcome # "usage_error"
          /\ extraction.tokens_used = expected

\* C24: OpenAIService.extract_message gives choices[0].message.content when
\* the response has it; otherwise it gives the text payloads of the content
\* blocks of the output list, each exactly once, in document order, trimmed
\* and joined with newlines.
MessageExtracted ==
    LET data == response_data
        blocks == SelectSeq(data.output, LAMBDA b : b.field # "none")
        expected ==
            IF data.choices = "content" THEN <<"c">>
            ELSE JoinStripped([i \in 1..Len(blocks) |-> blocks[i].payload])
    IN (extraction.by = "service" /\ expected # <<>>) =>
          /\ extraction.outcome \notin {"no_choices", "no_text"}
          /\ extraction.message = expected

\* ========================================================================
\* Part IX - the client registry (LLMService._get_client)
\* ========================================================================
\* LLMProvider.allowed_vendors(): create and update accept no other vendor
Vendors == {"openai", "google", "groq"}

\* the API keys an operator enters; update stores the field as it is
\* given, the empty string included
ApiKeys == {"", "k1", "k2"}

\* variant: the signature leaves the key out
Signature_no_key(provider) == <<provider.vendor, "", provider.updated_at>>

\* f"{vendor}:{api_key}:{updated_at.isoformat()}".  The vendor holds no
\* colon and isoformat() has a fixed layout, so two signatures are equal
\* exactly when the three parts are.
Signature(provider) == <<provider.vendor, provider.api_key, provider.updated_at>>

\* client_cls(api_key=provider.api_key); BaseProviderClient.__init__ raises
\* on an empty key
BuildClient(provider) ==
    IF provider.api_key = "" THEN NoClient
    ELSE [vendor |-> provider.vendor, api_key |-> provider.api_key]

\* _get_client(provider): the cached client on an equal signature,
\* otherwise a new client, stored with the signature unless building raised
GetClient(p) ==
    LET provider == providers[p]
        cached == clients[p]
        hit == cached # NoEntry /\ cached.signature = Signature(provider)
        client == IF hit THEN cached.client ELSE BuildClient(provider)
    IN /\ got' = [provider |-> p, seen |-> provider, previous |-> cached,
                  hit |-> hit, client |-> client]
       /\ clients' = IF hit \/ client = NoClient THEN clients
                     ELSE [clients EXCEPT ![p] =
                              [signature |-> Signature(provider), client |-> client]]
       /\ UNCHANGED <<providers, now, edits>>
       /\ UNCHANGED <<lifecycleVars, dialogVars, notCacheVars>>

\* manage_providers, action "update": the vendor when one is given, then
\* update_credentials(name, api_key), which stamps updated_at
UpdateProvider(p, vendor, api_key) ==
    /\ edits < MaxEdits
    /\ edits' = edits + 1
    /\ providers' = [providers EXCEPT ![p] =
           [vendor |-> IF vendor \in Vendors THEN vendor ELSE providers[p].vendor,
            api_key |-> api_key,
            updated_at |-> now]]
    /\ UNCHANGED <<clients, got, now>>
    /\ UNCHANGED <<lifecycleVars, dialogVars, notCacheVars>>

\* time passes
Tick ==
    /\ now < MaxClock
    /\ now' = now + 1
    /\ UNCHANGED <<providers, clients, got, edits>>
    /\ UNCHANGED <<lifecycleVars, dialogVars, notCacheVars>>

InitCache ==
    /\ polling_thread = None
    /\ stop_event = FALSE
    /\ bot = None
    /\ tstate = [t \in Threads |-> "unborn"]
    /\ tbot = [t \in Threads |-> None]
    /\ stop_requested = {}
    /\ nbots = 0
    /\ webhook = FALSE
    /\ token_set = FALSE
    /\ url_set = FALSE
    /\ notified_stop = {}
    /\ notified_poll = {}
    /\ caller = [c \in CallerIds |-> IdleCaller]
    /\ dialogs = <<>>
    /\ logs = <<>>
    /\ dialog_token_limit = 0
    /\ models = {}
    /\ bot_paused = FALSE
    /\ user_active = [u \in Users |-> TRUE]
    /\ sent = {}
    /\ backend_calls = {}
    /\ handler = [h \in Handlers |-> IdleHandler]
    /\ events = 0
    /\ webhook_secret = NoSecret
    /\ ensured = FALSE
    /\ delivered = {}
    /\ answered = {}
    /\ requests = 0
    /\ text = <<>>
    /\ chunks = <<>>
    /\ chunked = FALSE
    /\ error_recipients = {}
    /\ provider_messages = {}
    /\ replied = {}
    /\ backend_requests = <<>>
    /\ active_model_id = Unset
    /\ default_models = {}
    /\ selected = NotCalled
    /\ limit_exceeded = FALSE
    /\ outbox = <<>>
    /\ reply_sent = FALSE
    /\ openai_api_key = FALSE
    /\ client_calls = <<>>
    /\ http_posts = <<>>
    /\ response_data = EmptyResponse
    /\ extraction = NotExtracted
    /\ providers \in [ProviderIds -> [vendor : {"openai"}, api_key : {"", "k1"},
                                      updated_at : {0}]]
    /\ clients = [p \in ProviderIds |-> NoEntry]
    /\ got = NotGot
    /\ now = 0
    /\ edits = 0
    /\ users = <<>>
    /\ uhandler = [h \in Handlers |-> IdleUpsert]
    /\ received = 0
    /\ last_username = ""
    /\ last_full_name = ""
    /\ effective = NotDetermined
    /\ title = PlaceholderTitle
    /\ first_message = <<>>
    /\ turns = 0
    /\ shown = NotShown
    /\ model_config = <<>>
    /\ model_name = <<>>
    /\ rules_map = <<>>
    /\ request = NoRequest
    /\ bot_messages = <<>>
    /\ assistant_ids = <<>>
    /\ loop_text = <<>>
    /\ loop_remaining = <<>>
    /\ loop_first = TRUE
    /\ loop_chunks = <<>>
    /\ loop_pc = "idle"

NextCache ==
    \/ \E p \in ProviderIds : GetClient(p)
    \/ \E p \in ProviderIds, vendor \in Vendors \cup {""}, api_key \in ApiKeys :
          UpdateProvider(p, vendor, api_key)
    \/ Tick

CacheSpec == InitCache /\ [][NextCache]_vars

\* C25: _get_client gives the cached client exactly when the provider's
\* (vendor, api_key, updated_at) equal those the cached client was stored
\* with, and the client it gives was built with the provider's current key
\* and vendor.
CachedClientIsCurrent ==
    got.provider \in ProviderIds =>
        /\ got.hit <=> /\ got.previous # NoEntry
                       /\ got.previous.signature =
                             <<got.seen.vendor, got.seen.api_key, got.seen.updated_at>>
        /\ got.hit => got.client = got.previous.client
        /\ got.client # NoClient =>
              /\ got.client.api_key = got.seen.api_key
              /\ got.client.vendor = got.seen.vendor

\* a call found the client of an older key cached, stored at the same clock
\* reading as the edit, and gave a client built with the new key
CachedClientIsCurrent_witness ==
    /\ got.provider \in ProviderIds
    /\ ~got.hit
    /\ got.previous # NoEntry
    /\ got.previous.client.api_key # got.seen.api_key
    /\ got.previous.signature[3] = got.seen.updated_at
    /\ got.client # NoClient
    /\ got.client.api_key = got.seen.api_key

\* ========================================================================
\* Part X - the upsert of the sender (_get_or_create_user)
\* ========================================================================
\* the Telegram id of the sender
Sender == 1

\* telegram_user.username and the joined first and last name; "" stands
\* for None and for the empty string, which the code treats alike
Usernames == {"", "a", "b"}
FullNames == {"", "n", "m"}

\* positions of the rows with the sender's telegram_id
SenderRows == {i \in 1..Len(users) : users[i].telegram_id = Sender}

\* .filter_by(telegram_id=...).first()
FirstSenderRow == CHOOSE i \in SenderRows : \A j \in SenderRows : i <= j

\* an update of the sender reaches a handler
UserBegin(h, username, full_name) ==
    /\ uhandler[h].pc = "idle"
    /\ received < MaxContacts
    /\ received' = received + 1
    /\ last_username' = IF username # "" THEN username ELSE last_username
    /\ last_full_name' = IF full_name # "" THEN full_name ELSE last_full_name
    /\ uhandler' = [uhandler EXCEPT ![h] =
          [pc |-> "query", username |-> username, full_name |-> full_name,
           loaded |-> NoRow]]
    /\ UNCHANGED users
    /\ UNCHANGED <<lifecycleVars, dialogVars, notUserVars>>

\* user = User.query.filter_by(telegram_id=...).first(), at line 97 and,
\* after the rollback, at line 115
UserQuery(h) ==
    /\ uhandler[h].pc \in {"query", "requery"}
    /\ uhandler' = [uhandler EXCEPT ![h] =
          IF SenderRows = {}
          THEN [@ EXCEPT !.pc = IF @ = "query" THEN "insert" ELSE "idle"]
          ELSE [@ EXCEPT !.pc = "update", !.loaded = users[FirstSenderRow]]]
    /\ UNCHANGED <<users, received, last_username, last_full_name>>
    /\ UNCHANGED <<lifecycleVars, dialogVars, notUserVars>>

\* the attributes that differ from the loaded ones are set, then commit:
\* the UPDATE carries the attributes that were set
UserUpdate(h) ==
    /\ uhandler[h].pc = "update"
    /\ LET me == uhandler[h]
           i == FirstSenderRow
       IN users' = [users EXCEPT
             ![i].username = IF me.username # "" /\ me.loaded.username # me.username
                             THEN me.username ELSE @,
             ![i].full_name = IF me.full_name # "" /\ me.loaded.full_name # me.full_name
                              THEN me.full_name ELSE @]
    /\ uhandler' = [uhandler EXCEPT ![h] = IdleUpsert]
    /\ UNCHANGED <<received, last_username, last_full_name>>
    /\ UNCHANGED <<lifecycleVars, dialogVars, notUserVars>>

\* db.session.add(user); commit: the unique telegram_id makes the second
\* insert raise IntegrityError, which is rolled back
UserInsert(h) ==
    /\ uhandler[h].pc = "insert"
    /\ IF SenderRows = {}
       THEN /\ users' = Append(users,
                    [telegram_id |-> Sender, username |-> uhandler[h].username,
                     full_name |-> uhandler[h].full_name])
            /\ uhandler' = [uhandler EXCEPT ![h] = IdleUpsert]
       ELSE /\ uhandler' = [uhandler EXCEPT ![h].pc = "requery"]
            /\ UNCHANGED users
    /\ UNCHANGED <<received, last_username, last_full_name>>
    /\ UNCHANGED <<lifecycleVars, dialogVars, notUserVars>>

InitUser ==
    /\ polling_thread = None
    /\ stop_event = FALSE
    /\ bot = None
    /\ tstate = [t \in Threads |-> "unborn"]
    /\ tbot = [t \in Threads |-> None]
    /\ stop_requested = {}
    /\ nbots = 0
    /\ webhook = FALSE
    /\ token_set = FALSE
    /\ url_set = FALSE
    /\ notified_stop = {}
    /\ notified_poll = {}
    /\ caller = [c \in CallerIds |-> IdleCaller]
    /\ dialogs = <<>>
    /\ logs = <<>>
    /\ dialog_token_limit = 0
    /\ models = {}
    /\ bot_paused = FALSE
    /\ user_active = [u \in Users |-> TRUE]
    /\ sent = {}
    /\ backend_calls = {}
    /\ handler = [h \in Handlers |-> IdleHandler]
    /\ events = 0
    /\ webhook_secret = NoSecret
    /\ ensured = FALSE
    /\ delivered = {}
    /\ answered = {}
    /\ requests = 0
    /\ text = <<>>
    /\ chunks = <<>>
    /\ chunked = FALSE
    /\ error_recipients = {}
    /\ provider_messages = {}
    /\ replied = {}
    /\ backend_requests = <<>>
    /\ active_model_id = Unset
    /\ default_models = {}
    /\ selected = NotCalled
    /\ limit_exceeded = FALSE
    /\ outbox = <<>>
    /\ reply_sent = FALSE
    /\ openai_api_key = FALSE
    /\ client_calls = <<>>
    /\ http_posts = <<>>
    /\ response_data = EmptyResponse
    /\ extraction = NotExtracted
    /\ providers = [p \in ProviderIds |-> NewProvider]
    /\ clients = [p \in ProviderIds |-> NoEntry]
    /\ got = NotGot
    /\ now = 0
    /\ edits = 0
    /\ users \in {<<>>, <<[telegram_id |-> 2, username |-> "b", full_name |-> "m"]>>}
    /\ uhandler = [h \in Handlers |-> IdleUpsert]
    /\ received = 0
    /\ last_username = ""
    /\ last_full_name = ""
    /\ effective = NotDetermined
    /\ title = PlaceholderTitle
    /\ first_message = <<>>
    /\ turns = 0
    /\ shown = NotShown
    /\ model_config = <<>>
    /\ model_name = <<>>
    /\ rules_map = <<>>
    /\ request = NoRequest
    /\ bot_messages = <<>>
    /\ assistant_ids = <<>>
    /\ loop_text = <<>>
    /\ loop_remaining = <<>>
    /\ loop_first = TRUE
    /\ loop_chunks = <<>>
    /\ loop_pc = "idle"

UserStep(h) ==
    \/ \E username \in Usernames, full_name \in FullNames :
          UserBegin(h, username, full_name)
    \/ UserQuery(h)
    \/ UserUpdate(h)
    \/ UserInsert(h)

NextUser == \E h \in Handlers : UserStep(h)

UserSpec == InitUser /\ [][NextUser]_vars

\* C28: whenever no handler is inside _get_or_create_user, exactly one User
\* row holds the sender's Telegram id, and its username and full name are
\* the latest non-empty values received from the sender.
UpsertKeepsLatest ==
    (received > 0 /\ \A h \in Handlers : uhandler[h].pc = "idle") =>
        /\ Cardinality(SenderRows) = 1
        /\ \A i \in SenderRows :
              /\ last_username # "" => users[i].username = last_username
              /\ last_full_name # "" => users[i].full_name = last_full_name

\* ========================================================================
\* Part XI - the effective limit (_determine_effective_dialog_limit)
\* ========================================================================
\* the rows of a dialog: row i has message_index i and the model that
\* answered it, if any (the ModelConfig may have been deleted since)
LimitLogs ==
    UNION {{[i \in 1..k |-> [dialog |-> 1, idx |-> i, tokens |-> TurnTokens,
                             model |-> ms[i], resp |-> "reply",
                             responded |-> TRUE]] :
               ms \in [1..k -> {None} \cup ModelIds]} : k \in 0..MaxStoredTurns}

\* the call of the budget pre-check: no log entry is given, the source row
\* is the dialog's latest row that has a model
DetermineForDialog ==
    /\ \E v \in determine_effective_dialog_limit(1) :
          effective' = [form |-> "dialog", log |-> 0, value |-> v]
    /\ UNCHANGED <<lifecycleVars, dialogVars, notLimitVars>>

\* the call of _format_usage_summary: the row of the turn is given and is
\* the source row
DetermineForLogEntry(l) ==
    /\ l \in LogIds
    /\ effective' = [form |-> "log_entry", log |-> l, value |-> effective_limit_from(l)]
    /\ UNCHANGED <<lifecycleVars, dialogVars, notLimitVars>>

InitLimit ==
    /\ polling_thread = None
    /\ stop_event = FALSE
    /\ bot = None
    /\ tstate = [t \in Threads |-> "unborn"]
    /\ tbot = [t \in Threads |-> None]
    /\ stop_requested = {}
    /\ nbots = 0
    /\ webhook = FALSE
    /\ token_set = FALSE
    /\ url_set = FALSE
    /\ notified_stop = {}
    /\ notified_poll = {}
    /\ caller = [c \in CallerIds |-> IdleCaller]
    /\ dialogs = <<NewDialog(1)>>
    /\ logs \in LimitLogs
    /\ dialog_token_limit \in -1..MaxLimit
    /\ models \in SUBSET ModelIds
    /\ bot_paused = FALSE
    /\ user_active = [u \in Users |-> TRUE]
    /\ sent = {}
    /\ backend_calls = {}
    /\ handler = [h \in Handlers |-> IdleHandler]
    /\ events = 0
    /\ webhook_secret = NoSecret
    /\ ensured = FALSE
    /\ delivered = {}
    /\ answered = {}
    /\ requests = 0
    /\ text = <<>>
    /\ chunks = <<>>
    /\ chunked = FALSE
    /\ error_recipients = {}
    /\ provider_messages = {}
    /\ replied = {}
    /\ backend_requests = <<>>
    /\ active_model_id = Unset
    /\ default_models = {}
    /\ selected \in (IF models = {} THEN {Raised} ELSE models)
    /\ limit_exceeded = FALSE
    /\ outbox = <<>>
    /\ reply_sent = FALSE
    /\ openai_api_key = FALSE
    /\ client_calls = <<>>
    /\ http_posts = <<>>
    /\ response_data = EmptyResponse
    /\ extraction = NotExtracted
    /\ providers = [p \in ProviderIds |-> NewProvider]
    /\ clients = [p \in ProviderIds |-> NoEntry]
    /\ got = NotGot
    /\ now = 0
    /\ edits = 0
    /\ users = <<>>
    /\ uhandler = [h \in Handlers |-> IdleUpsert]
    /\ received = 0
    /\ last_username = ""
    /\ last_full_name = ""
    /\ effective = NotDetermined
    /\ title = PlaceholderTitle
    /\ first_message = <<>>
    /\ turns = 0
    /\ shown = NotShown
    /\ model_config = <<>>
    /\ model_name = <<>>
    /\ rules_map = <<>>
    /\ request = NoRequest
    /\ bot_messages = <<>>
    /\ assistant_ids = <<>>
    /\ loop_text = <<>>
    /\ loop_remaining = <<>>
    /\ loop_first = TRUE
    /\ loop_chunks = <<>>
    /\ loop_pc = "idle"

NextLimit ==
    \/ DetermineForDialog
    \/ \E l \in 1..MaxStoredTurns : DetermineForLogEntry(l)

LimitSpec == InitLimit /\ [][NextLimit]_vars

\* v is the smallest positive value of S, or NoLimit when S has none
IsMinPositive(v, S) ==
    IF \E w \in S : w > 0
    THEN v \in S /\ v > 0 /\ \A w \in S : w > 0 => v <= w
    ELSE v = NoLimit

\* dialog_token_limit of model m; a model that is missing has none
LimitOfModel(m) == IF m \in models THEN ModelLimit[m] ELSE NoLimit

\* C30: the result is the minimum of the global setting and the
\* limit of the model serving the turn (the model _get_model_config gives
\* when the call precedes the turn, the model of the turn's row when the row
\* is given), ignoring values that are missing or not positive.
EffectiveLimitOfServingModel ==
    effective.form # "none" =>
        LET serving == IF effective.form = "log_entry"
                       THEN logs[effective.log].model ELSE selected
        IN IsMinPositive(effective.value, {dialog_token_limit, LimitOfModel(serving)})

\* ========================================================================
\* Part XII - the title of a dialog (_handle_message, _format_dialog_title)
\* ========================================================================
\* Texts are sequences of runs as in Part IV.
\* the character U+2026 appended to a shortened title
Ellipsis == <<[c |-> "~", n |-> 1]>>
\* the text "Диалог #<id>"
DialogNumber == <<[c |-> "D", n |-> 6], [c |-> " ", n |-> 1], [c |-> "#", n |-> 2]>>

TitleRuns == [c : {"a"}, n : {1, 40, 255}] \cup [c : {" "}, n : {1, 40}]
\* texts of text messages: they hold a character that is not white space
TitleTexts ==
    {PlaceholderTitle} \cup
    {t \in UNION {[1..k -> TitleRuns] : k \in 1..MaxTitleRuns} :
        \E i \in 1..Len(t) : t[i].c # " "}

\* " ".join(t.split())
TNormalise(t) ==
    LET words == Canon(RStripLeft(RStripRight(t)))
    IN [i \in 1..Len(words) |->
          IF words[i].c = " " THEN [c |-> " ", n |-> 1] ELSE words[i]]

\* _handle_message, lines 47-60: the row of the turn is added and the title
\* is set when the row is the first one of the dialog
HandleMessageTitle(t) ==
    /\ turns < MaxTitleTurns
    /\ LET message_index == turns + 1
       IN /\ turns' = message_index
          /\ first_message' = IF message_index = 1 THEN t ELSE first_message
          /\ title' = IF message_index = 1 /\ t # <<>>
                      THEN RTake(TNormalise(t), TitleCap) ELSE title
    /\ shown' = NotShown
    /\ UNCHANGED <<lifecycleVars, dialogVars, notTitleVars>>

\* variant: the shortened title gets no ellipsis
format_dialog_title_plain ==
    LET stripped == RStripLeft(RStripRight(title))
        base_title == IF stripped = PlaceholderTitle THEN <<>> ELSE stripped
        source == IF base_title # <<>> THEN base_title
                  ELSE IF turns > 0 THEN first_message ELSE DialogNumber
        prepared == TNormalise(source)
        cut == IF RLen(prepared) > ShownCap THEN RTake(prepared, ShownCap) ELSE prepared
    IN IF cut # <<>> THEN cut ELSE DialogNumber

\* _format_dialog_title(dialog)
format_dialog_title ==
    LET stripped == RStripLeft(RStripRight(title))
        base_title == IF stripped = PlaceholderTitle THEN <<>> ELSE stripped
        source == IF base_title # <<>> THEN base_title
                  ELSE IF turns > 0 THEN first_message ELSE DialogNumber
        prepared == TNormalise(source)
        cut == IF RLen(prepared) > ShownCap
               THEN RTake(prepared, ShownCap) \o Ellipsis ELSE prepared
    IN IF cut # <<>> THEN cut ELSE DialogNumber

\* the history keyboard is built: _format_dialog_title is called
FormatDialogTitle ==
    /\ shown' = format_dialog_title
    /\ UNCHANGED <<lifecycleVars, dialogVars, notTitleVars, title, first_message, turns>>

InitTitle ==
    /\ polling_thread = None
    /\ stop_event = FALSE
    /\ bot = None
    /\ tstate = [t \in Threads |-> "unborn"]
    /\ tbot = [t \in Threads |-> None]
    /\ stop_requested = {}
    /\ nbots = 0
    /\ webhook = FALSE
    /\ token_set = FALSE
    /\ url_set = FALSE
    /\ notified_stop = {}
    /\ notified_poll = {}
    /\ caller = [c \in CallerIds |-> IdleCaller]
    /\ dialogs = <<>>
    /\ logs = <<>>
    /\ dialog_token_limit = 0
    /\ models = {}
    /\ bot_paused = FALSE
    /\ user_active = [u \in Users |-> TRUE]
    /\ sent = {}
    /\ backend_calls = {}
    /\ handler = [h \in Handlers |-> IdleHandler]
    /\ events = 0
    /\ webhook_secret = NoSecret
    /\ ensured = FALSE
    /\ delivered = {}
    /\ answered = {}
    /\ requests = 0
    /\ text = <<>>
    /\ chunks = <<>>
    /\ chunked = FALSE
    /\ error_recipients = {}
    /\ provider_messages = {}
    /\ replied = {}
    /\ backend_requests = <<>>
    /\ active_model_id = Unset
    /\ default_models = {}
    /\ selected = NotCalled
    /\ limit_exceeded = FALSE
    /\ outbox = <<>>
    /\ reply_sent = FALSE
    /\ openai_api_key = FALSE
    /\ client_calls = <<>>
    /\ http_posts = <<>>
    /\ response_data = EmptyResponse
    /\ extraction = NotExtracted
    /\ providers = [p \in ProviderIds |-> NewProvider]
    /\ clients = [p \in ProviderIds |-> NoEntry]
    /\ got = NotGot
    /\ now = 0
    /\ edits = 0
    /\ users = <<>>
    /\ uhandler = [h \in Handlers |-> IdleUpsert]
    /\ received = 0
    /\ last_username = ""
    /\ last_full_name = ""
    /\ effective = NotDetermined
    /\ title = PlaceholderTitle
    /\ first_message = <<>>
    /\ turns = 0
    /\ shown = NotShown
    /\ model_config = <<>>
    /\ model_name = <<>>
    /\ rules_map = <<>>
    /\ request = NoRequest
    /\ bot_messages = <<>>
    /\ assistant_ids = <<>>
    /\ loop_text = <<>>
    /\ loop_remaining = <<>>
    /\ loop_first = TRUE
    /\ loop_chunks = <<>>
    /\ loop_pc = "idle"

NextTitle ==
    \/ \E t \in TitleTexts : HandleMessageTitle(t)
    \/ FormatDialogTitle

TitleSpec == InitTitle /\ [][NextTitle]_vars

\* C31: after the first turn, and after every later one, Dialog.title is
\* the white-space-normalised text of the first message when that is within
\* the cap, and otherwise a prefix of it within the cap followed by an
\* ellipsis.
TitleSetWithEllipsis ==
    turns >= 1 =>
        LET n == TNormalise(first_message)
        IN IF RLen(n) <= TitleCap THEN title = n
           ELSE /\ RLen(title) <= TitleCap + 1
                /\ title = RTake(n, RLen(title) - 1) \o Ellipsis

\* C31, amended: after the first turn, and after every later one,
\* Dialog.title is the white-space-normalised text of the first message cut
\* to TitleCap characters, without an ellipsis; the title shown by
\* _format_dialog_title is that text when it has at most ShownCap
\* characters and otherwise its first ShownCap characters and an ellipsis.
TitleStoredAndShown ==
    turns >= 1 =>
        LET n == TNormalise(first_message)
        IN /\ title = RTake(n, TitleCap)
           /\ shown # NotShown =>
                 shown = IF RLen(n) <= ShownCap THEN n
                         ELSE RTake(n, ShownCap) \o Ellipsis

\* a second turn has been recorded in a dialog whose first text is longer
\* than the cap: the stored title is cut and the shown one has the ellipsis
TitleStoredAndShown_witness ==
    /\ turns = 2
    /\ RLen(TNormalise(first_message)) > TitleCap
    /\ RLen(title) = TitleCap
    /\ shown = RTake(title, ShownCap) \o Ellipsis
    /\ model_config = <<>>
    /\ model_name = <<>>
    /\ rules_map = <<>>
    /\ request = NoRequest
    /\ bot_messages = <<>>
    /\ assistant_ids = <<>>
    /\ loop_text = <<>>
    /\ loop_remaining = <<>>
    /\ loop_first = TRUE
    /\ loop_chunks = <<>>
    /\ loop_pc = "idle"

\* ========================================================================
\* Part XIII - the parameters of a backend request
\*             (OpenAIProviderClient._sanitize_model_config,
\*              OpenAIService._build_chat_payload)
\* ========================================================================
\* parameter names that occur in a model_config
ParamKeys == {"model", "temperature", "top_p", "max_tokens", "max_completion_tokens"}
\* a model_config: its keys in insertion order, no key twice
ParamConfigs ==
    {c \in UNION {[1..k -> ParamKeys] : k \in 0..MaxParams} :
        \A i, j \in 1..Len(c) : i # j => c[i] # c[j]}
\* model names are sequences of characters, <<>> is the empty name
ModelNames == {<<>>, <<1>>, <<1, 2>>, <<2>>}
\* the key "default" of the rule table
DefaultKey == <<0>>
RuleKeys == {<<1>>, <<1, 2>>, DefaultKey}
\* "aliases" of a rule: key -> target key (a key that has no alias maps to
\* itself, as aliases.get(key, key) gives)
NoAliases == [k \in ParamKeys |-> k]
AliasTables ==
    {NoAliases,
     [NoAliases EXCEPT !["max_tokens"] = "max_completion_tokens"],
     [NoAliases EXCEPT !["max_tokens"] = "max_completion_tokens",
                       !["temperature"] = "max_tokens"]}
\* the rules of one key: allowed_params and aliases
Rules ==
    [allowed : {{}, {"temperature"}, {"model", "temperature", "max_completion_tokens"}},
     aliases : AliasTables]
\* rules_map.get("default", {}) when the table has no default
NoRules == [allowed |-> {}, aliases |-> NoAliases]
\* the tables: every key is absent or has one of the rules
RuleTables ==
    UNION {[ks -> {r \in Rules : r.aliases # NoAliases \/ r.allowed # {}}] :
              ks \in SUBSET RuleKeys}

\* model_name.startswith(key)
StartsWith(name, key) ==
    Len(key) <= Len(name) /\ SubSeq(name, 1, Len(key)) = key

\* _resolve_rules_for_model(model_name)
resolve_rules_for_model(name) ==
    IF name \in DOMAIN rules_map THEN rules_map[name]
    ELSE LET matched == {k \in DOMAIN rules_map \ {DefaultKey} : StartsWith(name, k)}
         IN IF matched # {}
            THEN rules_map[CHOOSE k \in matched : \A j \in matched : Len(j) <= Len(k)]
            ELSE IF DefaultKey \in DOMAIN rules_map THEN rules_map[DefaultKey]
                 ELSE NoRules

RECURSIVE SanitizeLoop(_, _, _, _)
\* the loop of _sanitize_model_config over model_config.items(): sanitized
\* is a set of <<target key, key whose value it holds>>
SanitizeLoop(cfg, allowed, aliases, sanitized) ==
    IF cfg = <<>> THEN sanitized
    ELSE LET key == cfg[1]
             target_key == aliases[key]
             present == \E e \in sanitized : e[1] = target_key
         IN IF target_key \notin allowed
            THEN SanitizeLoop(Tail(cfg), allowed, aliases, sanitized)
            ELSE IF present /\ target_key # key
                 THEN SanitizeLoop(Tail(cfg), allowed, aliases, sanitized)
                 ELSE SanitizeLoop(Tail(cfg), allowed, aliases,
                                   {e \in sanitized : e[1] # target_key}
                                       \cup {<<target_key, key>>})

\* variant: a key that is not allowed is kept under its own name
SanitizeModelConfig_keep ==
    /\ request.by = "none"
    /\ request' =
          IF ~(\E i \in 1..Len(model_config) : model_config[i] = "model")
                \/ model_name = <<>>
          THEN [by |-> "provider", outcome |-> "raised", params |-> {}]
          ELSE [by |-> "provider", outcome |-> "sent",
                params |-> {<<model_config[i], model_config[i]>> :
                               i \in 1..Len(model_config)}]
    /\ UNCHANGED <<lifecycleVars, dialogVars, notParamVars, model_config,
                   model_name, rules_map>>

\* OpenAIProviderClient.send_chat_request: the payload is "messages" and
\* what _sanitize_model_config returns
SanitizeModelConfig ==
    /\ request.by = "none"
    /\ request' =
          IF ~(\E i \in 1..Len(model_config) : model_config[i] = "model")
                \/ model_name = <<>>
          THEN [by |-> "provider", outcome |-> "raised", params |-> {}]
          ELSE LET rules == resolve_rules_for_model(model_name)
                   allowed == (IF rules.allowed # {} THEN rules.allowed ELSE {"model"})
                                  \cup {"model"}
               IN [by |-> "provider", outcome |-> "sent",
                   params |-> SanitizeLoop(model_config, allowed, rules.aliases, {})]
    /\ UNCHANGED <<lifecycleVars, dialogVars, notParamVars, model_config,
                   model_name, rules_map>>

\* the parameters _build_chat_payload and _build_responses_payload copy
ServiceParams == {"temperature", "top_p"}

\* OpenAIService._build_chat_payload / _build_responses_payload
BuildChatPayload ==
    /\ request.by = "none"
    /\ request' =
          IF ~(\E i \in 1..Len(model_config) : model_config[i] = "model")
                \/ model_name = <<>>
          THEN [by |-> "service", outcome |-> "raised", params |-> {}]
          ELSE [by |-> "service", outcome |-> "sent",
                params |-> {<<"model", "model">>} \cup
                           {<<model_config[i], model_config[i]>> :
                               i \in {j \in 1..Len(model_config) :
                                         model_config[j] \in ServiceParams}}]
    /\ UNCHANGED <<lifecycleVars, dialogVars, notParamVars, model_config,
                   model_name, rules_map>>

InitParam ==
    /\ polling_thread = None
    /\ stop_event = FALSE
    /\ bot = None
    /\ tstate = [t \in Threads |-> "unborn"]
    /\ tbot = [t \in Threads |-> None]
    /\ stop_requested = {}
    /\ nbots = 0
    /\ webhook = FALSE
    /\ token_set = FALSE
    /\ url_set = FALSE
    /\ notified_stop = {}
    /\ notified_poll = {}
    /\ caller = [c \in CallerIds |-> IdleCaller]
    /\ dialogs = <<>>
    /\ logs = <<>>
    /\ dialog_token_limit = 0
    /\ models = {}
    /\ bot_paused = FALSE
    /\ user_active = [u \in Users |-> TRUE]
    /\ sent = {}
    /\ backend_calls = {}
    /\ handler = [h \in Handlers |-> IdleHandler]
    /\ events = 0
    /\ webhook_secret = NoSecret
    /\ ensured = FALSE
    /\ delivered = {}
    /\ answered = {}
    /\ requests = 0
    /\ text = <<>>
    /\ chunks = <<>>
    /\ chunked = FALSE
    /\ error_recipients = {}
    /\ provider_messages = {}
    /\ replied = {}
    /\ backend_requests = <<>>
    /\ active_model_id = Unset
    /\ default_models = {}
    /\ selected = NotCalled
    /\ limit_exceeded = FALSE
    /\ outbox = <<>>
    /\ reply_sent = FALSE
    /\ openai_api_key = FALSE
    /\ client_calls = <<>>
    /\ http_posts = <<>>
    /\ response_data = EmptyResponse
    /\ extraction = NotExtracted
    /\ providers = [p \in ProviderIds |-> NewProvider]
    /\ clients = [p \in ProviderIds |-> NoEntry]
    /\ got = NotGot
    /\ now = 0
    /\ edits = 0
    /\ users = <<>>
    /\ uhandler = [h \in Handlers |-> IdleUpsert]
    /\ received = 0
    /\ last_username = ""
    /\ last_full_name = ""
    /\ effective = NotDetermined
    /\ title = PlaceholderTitle
    /\ first_message = <<>>
    /\ turns = 0
    /\ shown = NotShown
    /\ model_config \in ParamConfigs
    /\ model_name \in ModelNames
    /\ rules_map \in RuleTables
    /\ request = NoRequest
    /\ bot_messages = <<>>
    /\ assistant_ids = <<>>
    /\ loop_text = <<>>
    /\ loop_remaining = <<>>
    /\ loop_first = TRUE
    /\ loop_chunks = <<>>
    /\ loop_pc = "idle"

NextParam ==
    \/ SanitizeModelConfig
    \/ BuildChatPayload

ParamSpec == InitParam /\ [][NextParam]_vars

\* the rule that applies to a model name: the rule of the name itself, else
\* of the longest key that is a prefix of the name, else the default rule
AppliesTo(key, name) ==
    /\ key \in DOMAIN rules_map
    /\ \/ key = name
       \/ /\ name \notin DOMAIN rules_map
          /\ key # DefaultKey
          /\ StartsWith(name, key)
          /\ \A k \in DOMAIN rules_map \ {DefaultKey} :
                StartsWith(name, k) => Len(k) <= Len(key)
       \/ /\ key = DefaultKey
          /\ \A k \in DOMAIN rules_map \ {DefaultKey} : ~StartsWith(name, k)

\* the parameters the chosen model accepts in the request under way
Accepted ==
    IF request.by = "service" THEN ServiceParams \cup {"model"}
    ELSE {"model"} \cup UNION {rules_map[k].allowed :
                                  k \in {j \in DOMAIN rules_map : AppliesTo(j, model_name)}}

\* C32: every parameter of a request that is sent is accepted by the
\* chosen model (its allowed list or "model"), and a parameter of the
\* model_config whose name after alias mapping is not accepted is not
\* in the request.
OnlyAcceptedParamsSent ==
    request.outcome = "sent" =>
        /\ \A e \in request.params : e[1] \in Accepted
        /\ request.by = "provider" =>
              \A i \in 1..Len(model_config) :
                 LET rules == resolve_rules_for_model(model_name)
                 IN rules.aliases[model_config[i]] \notin Accepted =>
                       \A e \in request.params : e[2] # model_config[i]

\* a request was sent by the provider client for a model whose rule came
\* from a prefix: one parameter went out under its alias, one was dropped
OnlyAcceptedParamsSent_witness ==
    /\ request.by = "provider" /\ request.outcome = "sent"
    /\ model_name = <<1, 2>> /\ <<1, 2>> \notin DOMAIN rules_map
    /\ <<1>> \in DOMAIN rules_map
    /\ <<"max_completion_tokens", "max_tokens">> \in request.params
    /\ \E i \in 1..Len(model_config) :
          /\ model_config[i] = "top_p"
          /\ \A e \in request.params : e[2] # "top_p"

\* ========================================================================
\* Part XIV - the controls of the messages sent in a dialog
\*            (_handle_message, _clear_previous_reply_markup)
\* ========================================================================
\* The text messages of one dialog, handled one after the other.  Row i of
\* the dialog is turn i; the id of a bot message is its position in
\* bot_messages.

\* self._send_message(..., reply_markup=markup) for turn t
SendMessages(t, kinds, last_markup) ==
    [i \in 1..Len(kinds) |->
        [turn |-> t, kind |-> kinds[i],
         markup |-> last_markup /\ i = Len(kinds)]]

\* _clear_previous_reply_markup: edit_message_reply_markup(reply_markup=None)
\* for every row that has an assistant_message_id (the edits succeed)
clear_previous_reply_markup(messages) ==
    [i \in 1..Len(messages) |->
        IF \E t \in 1..Len(assistant_ids) : assistant_ids[t] = i
        THEN [messages[i] EXCEPT !.markup = FALSE] ELSE messages[i]]

\* lines 65-82: the budget is used up; the notice is sent with the inline
\* keyboard and its id is stored in the row
TurnLimitNotice ==
    /\ Len(assistant_ids) < MaxOutputs
    /\ bot_messages' = bot_messages \o
          SendMessages(Len(assistant_ids) + 1, <<"limit_notice">>, TRUE)
    /\ assistant_ids' = Append(assistant_ids, Len(bot_messages) + 1)
    /\ UNCHANGED <<lifecycleVars, dialogVars, notMarkupVars>>

\* lines 112-153: the backend answered; the keyboards of the earlier
\* replies are removed, the reply goes out in nchunks segments, the last
\* one with the keyboard unless the limit is reached, and then the notice
\* follows without one
TurnReply(nchunks, exceeded) ==
    /\ Len(assistant_ids) < MaxOutputs
    /\ LET t == Len(assistant_ids) + 1
           cleared == clear_previous_reply_markup(bot_messages)
           reply == SendMessages(t, [i \in 1..nchunks |-> "reply"], ~exceeded)
           notice == IF exceeded
                     THEN SendMessages(t, <<"limit_notice">>, FALSE) ELSE <<>>
       IN /\ bot_messages' = cleared \o reply \o notice
          /\ assistant_ids' = Append(assistant_ids,
                IF exceeded THEN 0 ELSE Len(bot_messages) + nchunks)
    /\ UNCHANGED <<lifecycleVars, dialogVars, notMarkupVars>>

\* lines 154-164: _query_llm raised; ERROR_USER_MESSAGE is sent with the
\* inline keyboard and the row keeps no message id
TurnError ==
    /\ Len(assistant_ids) < MaxOutputs
    /\ bot_messages' = bot_messages \o
          SendMessages(Len(assistant_ids) + 1, <<"error">>, TRUE)
    /\ assistant_ids' = Append(assistant_ids, 0)
    /\ UNCHANGED <<lifecycleVars, dialogVars, notMarkupVars>>

InitMarkup ==
    /\ polling_thread = None
    /\ stop_event = FALSE
    /\ bot = None
    /\ tstate = [t \in Threads |-> "unborn"]
    /\ tbot = [t \in Threads |-> None]
    /\ stop_requested = {}
    /\ nbots = 0
    /\ webhook = FALSE
    /\ token_set = FALSE
    /\ url_set = FALSE
    /\ notified_stop = {}
    /\ notified_poll = {}
    /\ caller = [c \in CallerIds |-> IdleCaller]
    /\ dialogs = <<>>
    /\ logs = <<>>
    /\ dialog_token_limit = 0
    /\ models = {}
    /\ bot_paused = FALSE
    /\ user_active = [u \in Users |-> TRUE]
    /\ sent = {}
    /\ backend_calls = {}
    /\ handler = [h \in Handlers |-> IdleHandler]
    /\ events = 0
    /\ webhook_secret = NoSecret
    /\ ensured = FALSE
    /\ delivered = {}
    /\ answered = {}
    /\ requests = 0
    /\ text = <<>>
    /\ chunks = <<>>
    /\ chunked = FALSE
    /\ error_recipients = {}
    /\ provider_messages = {}
    /\ replied = {}
    /\ backend_requests = <<>>
    /\ active_model_id = Unset
    /\ default_models = {}
    /\ selected = NotCalled
    /\ limit_exceeded = FALSE
    /\ outbox = <<>>
    /\ reply_sent = FALSE
    /\ openai_api_key = FALSE
    /\ client_calls = <<>>
    /\ http_posts = <<>>
    /\ response_data = EmptyResponse
    /\ extraction = NotExtracted
    /\ providers = [p \in ProviderIds |-> NewProvider]
    /\ clients = [p \in ProviderIds |-> NoEntry]
    /\ got = NotGot
    /\ now = 0
    /\ edits = 0
    /\ users = <<>>
    /\ uhandler = [h \in Handlers |-> IdleUpsert]
    /\ received = 0
    /\ last_username = ""
    /\ last_full_name = ""
    /\ effective = NotDetermined
    /\ title = PlaceholderTitle
    /\ first_message = <<>>
    /\ turns = 0
    /\ shown = NotShown
    /\ model_config = <<>>
    /\ model_name = <<>>
    /\ rules_map = <<>>
    /\ request = NoRequest
    /\ bot_messages = <<>>
    /\ assistant_ids = <<>>
    /\ loop_text = <<>>
    /\ loop_remaining = <<>>
    /\ loop_first = TRUE
    /\ loop_chunks = <<>>
    /\ loop_pc = "idle"

NextMarkup ==
    \/ TurnLimitNotice
    \/ \E nchunks \in 1..2, exceeded \in BOOLEAN : TurnReply(nchunks, exceeded)
    \/ TurnError

MarkupSpec == InitMarkup /\ [][NextMarkup]_vars

\* C36: once the output of a turn has been sent, no message sent for an
\* earlier turn of the dialog carries controls.
StaleControlsStripped ==
    \A i \in 1..Len(bot_messages) :
        bot_messages[i].markup => bot_messages[i].turn = Len(assistant_ids)

\* ========================================================================
\* Part XV - the loop of _prepare_response_chunks, one iteration at a time
\* ========================================================================
\* the texts handed to the function: runs of one character, of all but
\* three characters of a full message and of a full message
LoopTexts == {t \in Texts : \A i \in 1..Len(t) : t[i].n \in {1, 4093, 4096}}

\* the call _prepare_response_chunks(t) with escape=False:
\* processed_text = text
PrepareCall(t) ==
    /\ loop_pc = "idle"
    /\ loop_text' = t
    /\ loop_pc' = "entry"
    /\ UNCHANGED <<loop_remaining, loop_first, loop_chunks>>
    /\ UNCHANGED <<lifecycleVars, dialogVars, notLoopVars>>

\* if not text: return []
ReturnEmpty ==
    /\ loop_pc = "entry"
    /\ loop_text = <<>>
    /\ loop_pc' = "returned"
    /\ UNCHANGED <<loop_text, loop_remaining, loop_first, loop_chunks>>
    /\ UNCHANGED <<lifecycleVars, dialogVars, notLoopVars>>

\* if len(processed_text) <= 4096: return [processed_text]
ReturnWhole ==
    /\ loop_pc = "entry"
    /\ loop_text # <<>>
    /\ RLen(loop_text) <= TransportLimit
    /\ loop_chunks' = <<[prefix |-> <<>>, core |-> loop_text, suffix |-> <<>>]>>
    /\ loop_pc' = "returned"
    /\ UNCHANGED <<loop_text, loop_remaining, loop_first>>
    /\ UNCHANGED <<lifecycleVars, dialogVars, notLoopVars>>

\* chunks = []; remaining = processed_text; first_chunk = True
EnterLoop ==
    /\ loop_pc = "entry"
    /\ RLen(loop_text) > TransportLimit
    /\ loop_chunks' = <<>>
    /\ loop_remaining' = loop_text
    /\ loop_first' = TRUE
    /\ loop_pc' = "loop"
    /\ UNCHANGED loop_text
    /\ UNCHANGED <<lifecycleVars, dialogVars, notLoopVars>>

\* one pass through the body of "while remaining"; "if not remaining:
\* break" leaves the loop and the list is returned.  The loop is entered
\* with a text of more than 4096 characters and left by the break, so the
\* test of the while statement never fails.
LoopIteration ==
    /\ loop_pc = "loop"
    /\ loop_remaining # <<>>
    /\ loop_chunks' = Append(loop_chunks, SplitStep(loop_remaining, loop_first).chunk)
    /\ loop_remaining' = SplitStep(loop_remaining, loop_first).rest
    /\ loop_pc' = IF loop_remaining' = <<>> THEN "returned" ELSE "loop"
    /\ loop_first' = FALSE
    /\ UNCHANGED loop_text
    /\ UNCHANGED <<lifecycleVars, dialogVars, notLoopVars>>

InitLoop ==
    /\ polling_thread = None
    /\ stop_event = FALSE
    /\ bot = 1
    /\ tstate = [t \in Threads |-> "unborn"]
    /\ tbot = [t \in Threads |-> None]
    /\ stop_requested = {}
    /\ nbots = 1
    /\ webhook = TRUE
    /\ token_set = TRUE
    /\ url_set = TRUE
    /\ notified_stop = {}
    /\ notified_poll = {}
    /\ caller = [c \in CallerIds |-> IdleCaller]
    /\ dialogs = <<>>
    /\ logs = <<>>
    /\ dialog_token_limit = 0
    /\ models = {}
    /\ bot_paused = FALSE
    /\ user_active = [u \in Users |-> TRUE]
    /\ sent = {}
    /\ backend_calls = {}
    /\ handler = [h \in Handlers |-> IdleHandler]
    /\ events = 0
    /\ webhook_secret = NoSecret
    /\ ensured = FALSE
    /\ delivered = {}
    /\ answered = {}
    /\ requests = 0
    /\ text = <<>>
    /\ chunks = <<>>
    /\ chunked = FALSE
    /\ error_recipients = {}
    /\ provider_messages = {}
    /\ replied = {}
    /\ backend_requests = <<>>
    /\ active_model_id = Unset
    /\ default_models = {}
    /\ selected = NotCalled
    /\ limit_exceeded = FALSE
    /\ outbox = <<>>
    /\ reply_sent = FALSE
    /\ openai_api_key = FALSE
    /\ client_calls = <<>>
    /\ http_posts = <<>>
    /\ response_data = EmptyResponse
    /\ extraction = NotExtracted
    /\ providers = [p \in ProviderIds |-> NewProvider]
    /\ clients = [p \in ProviderIds |-> NoEntry]
    /\ got = NotGot
    /\ now = 0
    /\ edits = 0
    /\ users = <<>>
    /\ uhandler = [h \in Handlers |-> IdleUpsert]
    /\ received = 0
    /\ last_username = ""
    /\ last_full_name = ""
    /\ effective = NotDetermined
    /\ title = PlaceholderTitle
    /\ first_message = <<>>
    /\ turns = 0
    /\ shown = NotShown
    /\ model_config = <<>>
    /\ model_name = <<>>
    /\ rules_map = <<>>
    /\ request = NoRequest
    /\ bot_messages = <<>>
    /\ assistant_ids = <<>>
    /\ loop_text = <<>>
    /\ loop_remaining = <<>>
    /\ loop_first = TRUE
    /\ loop_chunks = <<>>
    /\ loop_pc = "idle"

NextLoop ==
    \/ \E t \in LoopTexts : PrepareCall(t)
    \/ ReturnEmpty
    \/ ReturnWhole
    \/ EnterLoop
    \/ LoopIteration

LoopSpec == InitLoop /\ [][NextLoop]_vars

\* C40: _prepare_response_chunks returns for every text.  A pass through
\* its loop appends one segment and leaves less of the remaining text than
\* it found; it either returns or leaves a non-empty remaining text for
\* the next pass; and at every moment the segments made so far plus the
\* characters still to be cut are no more than the characters of the text.
\* The length of the remaining text is a natural number that falls with
\* every pass, so the passes are finite, and the segments are never more
\* than the text is long.
ChunkLoopTerminates ==
    [][/\ loop_pc = "loop" =>
            /\ loop_pc' \in {"loop", "returned"}
            /\ Len(loop_chunks') = Len(loop_chunks) + 1
            /\ RLen(loop_remaining') < RLen(loop_remaining)
       /\ loop_pc' = "loop" => loop_remaining' # <<>>
       /\ loop_pc' = "returned" => loop_remaining' = <<>>
       /\ Len(loop_chunks') + RLen(loop_remaining') <= RLen(loop_text')]_vars

\* a text without a space, twice the limit long, came back in three
\* segments: every cut was made at the full room of a segment
ChunkLoopTerminates_witness ==
    /\ loop_pc = "returned"
    /\ RLen(loop_text) = 2 * TransportLimit
    /\ \A i \in 1..Len(loop_text) : loop_text[i].c = "a"
    /\ Len(loop_chunks) = 3
    /\ loop_remaining = <<>>

====
